---------------------------- MODULE Spec2Model ----------------------------
(***************************************************************************)
(* A model of sx2html.py: the character stream, the lexer, the bracket-tree *)
(* parser, the semantic tree builder and the HTML generator with its       *)
(* scripting namespace, flow control and ruby dictionary.                   *)
(*                                                                         *)
(* Text is a sequence of one-character strings, so that every operation of *)
(* the program on characters (split, strip, replace, indexing) is computed *)
(* as the program computes it.                                              *)
(***************************************************************************)
EXTENDS Integers, Sequences, FiniteSets, TLC

VARIABLES
    input,      \* history: the text the run was given
    ret,        \* the value returned by a function applied on its own
    name,       \* the name the ReadStream was opened with
    option,     \* the generator's options and environment: tab_width, files, ...
    stream,     \* ReadStream: unread input, current line, number, offset, pending
    stack,      \* Parser.__init__: the stack of open SxElement nodes
    tokens,     \* history: the tokens gettoken has returned so far
    pc,         \* "parse" | "parsed" | "done" | "raised" | "cut" | "again" | "call" | "return"
    exc,        \* the exception that ended the run, or NoExc
    tree,       \* Parser.tree, or NoTree
    root,       \* GenHTML.root, the Element tree, or NoTree
    gen         \* the result of generate(): text, namespace, ruby map, event log

vars == <<input, ret, name, option, stream, stack, tokens, pc, exc, tree, root, gen>>

(***************************************************************************)
(* Bounds of the model.                                                    *)
(***************************************************************************)
MaxDocLen == 4

(***************************************************************************)
(* Text helpers.                                                           *)
(***************************************************************************)
None == "None"

NoTree == <<>>

NoValue == <<>>

NoToken == <<>>

NoExc == [type |-> "", text |-> <<>>]

RECURSIVE Join(_)
Join(ss) == IF ss = <<>> THEN <<>> ELSE Head(ss) \o Join(Tail(ss))

RECURSIVE SeqsUpTo(_, _)
SeqsUpTo(S, n) ==
    IF n = 0 THEN {<<>>}
    ELSE LET shorter == SeqsUpTo(S, n - 1)
         IN  shorter \cup {Append(t, c) : t \in shorter, c \in S}

Digit(d) == CASE d = 0 -> "0" [] d = 1 -> "1" [] d = 2 -> "2" [] d = 3 -> "3"
              [] d = 4 -> "4" [] d = 5 -> "5" [] d = 6 -> "6" [] d = 7 -> "7"
              [] d = 8 -> "8" [] d = 9 -> "9"

\* str(n) of a non-negative integer, as an f-string formats it.
RECURSIVE DecimalStr(_)
DecimalStr(n) ==
    IF n < 10 THEN <<Digit(n)>> ELSE Append(DecimalStr(n \div 10), Digit(n % 10))

(***************************************************************************)
(* ReadStream.                                                             *)
(***************************************************************************)
STDIN_NAME == <<"[", "S", "T", "D", "I", "N", "]">>

\* ReadStream.__init__: the stream's name, and its first state over `text`.
StreamName(n) == IF n = <<"-">> THEN STDIN_NAME ELSE n

NewStream(text) ==
    [rest |-> text, line |-> <<>>, number |-> 0, offset |-> 0, pending |-> <<>>]

\* stream.readline(): the text up to and including the first line break.
RECURSIVE readline(_)
readline(text) ==
    IF text = <<>> THEN <<>>
    ELSE IF Head(text) = "\n" THEN <<"\n">>
    ELSE <<Head(text)>> \o readline(Tail(text))

getlineOf(s, line) ==
    IF line # <<>>
    THEN [line |-> line,
          s |-> [s EXCEPT !.rest = SubSeq(s.rest, Len(line) + 1, Len(s.rest)),
                          !.line = line,
                          !.number = s.number + 1,
                          !.offset = 0]]
    ELSE [line |-> line, s |-> s]

getline(s) == getlineOf(s, readline(s.rest))

\* getchar once the line holds a character at the offset, or the input has ended
getcharAt(g) ==
    IF g.line = <<>>
    THEN [ch |-> None, s |-> g.s]
    ELSE [ch |-> g.s.line[g.s.offset + 1],
          s |-> [g.s EXCEPT !.offset = g.s.offset + 1]]

getchar(s) ==
    IF s.pending # <<>>
    THEN [ch |-> s.pending[Len(s.pending)],
          s |-> [s EXCEPT !.pending = SubSeq(s.pending, 1, Len(s.pending) - 1)]]
    ELSE getcharAt(IF s.offset >= Len(s.line) THEN getline(s)
                   ELSE [line |-> s.line, s |-> s])

putchar(s, char) == [s EXCEPT !.pending = Append(s.pending, char)]

\* readchar(count): count calls of getchar; chars keeps the None results.
RECURSIVE readcharLoop(_, _, _)
readcharLoop(chars, r, count) ==
    IF count = 0 THEN [chars |-> Append(chars, r.ch), s |-> r.s]
    ELSE readcharLoop(Append(chars, r.ch), getchar(r.s), count - 1)

readchar(s, count) ==
    IF count = 0 THEN [chars |-> <<>>, s |-> s]
    ELSE readcharLoop(<<>>, getchar(s), count - 1)

\* ''.join(filter(lambda v: v, chars))
RECURSIVE JoinChars(_)
JoinChars(chars) ==
    IF chars = <<>> THEN <<>>
    ELSE (IF Head(chars) = None THEN <<>> ELSE <<Head(chars)>>)
         \o JoinChars(Tail(chars))

Reverse(q) == [i \in 1..Len(q) |-> q[Len(q) + 1 - i]]

\* the characters written back in the order they were read
writecharForward(s, chars) == [s EXCEPT !.pending = s.pending \o chars]

writechar(s, chars) == [s EXCEPT !.pending = s.pending \o Reverse(chars)]

(***************************************************************************)
(* Lexer.  A token is <<kind, text>>, kind one of "o" "c" "s" "q" "w".     *)
(* Each get* returns [tok, s, raised]: the token, the stream after it, and *)
(* the name of the exception raised instead, if any.                       *)
(***************************************************************************)
\* set(map(chr, range(33))), as far as the model's characters go
charset_space == {" ", "\t", "\n", "\r"}

charset_wstop == charset_space \cup {"(", ")", "[", "]", "{", "}", "'", "\""}

Token(kind, text, s) == [tok |-> <<kind, text>>, s |-> s, raised |-> ""]

\* The loops of the lexer take r, the result of the getchar that opens the
\* iteration, and call getchar once more for the next one.
RECURSIVE getspaceLoop(_, _)
getspaceLoop(space, r) ==
    IF r.ch = None THEN Token("s", space, r.s)
    ELSE IF r.ch \notin charset_space THEN Token("s", space, putchar(r.s, r.ch))
    ELSE getspaceLoop(Append(space, r.ch), getchar(r.s))

getspace(space, s) == getspaceLoop(space, getchar(s))

RECURSIVE getwordLoop(_, _)
getwordLoop(word, r) ==
    IF r.ch = None THEN Token("w", word, r.s)
    ELSE IF r.ch \in charset_wstop THEN Token("w", word, putchar(r.s, r.ch))
    ELSE getwordLoop(Append(word, r.ch), getchar(r.s))

getword(word, s) == getwordLoop(word, getchar(s))

escape_map(char) == CASE char = "t" -> "\t" [] char = "n" -> "\n" [] OTHER -> char

Raised(type, s) == [tok |-> NoToken, s |-> s, raised |-> type]

\* The next (escape, qstr) of getquote's loop on a character that does not end it.
QuoteEscape(escape, char) == ~escape /\ char = "\\"

QuoteText(qstr, escape, char) ==
    IF escape THEN Append(qstr, escape_map(char))
    ELSE IF char = "\\" THEN qstr
    ELSE Append(qstr, char)

RECURSIVE getquoteLoop(_, _, _, _)
getquoteLoop(qch, qstr, escape, r) ==
    IF r.ch = None THEN Raised("NotImplementedError", r.s)
    ELSE IF ~escape /\ r.ch # "\\" /\ r.ch = qch THEN Token("q", qstr, r.s)
    ELSE getquoteLoop(qch, QuoteText(qstr, escape, r.ch),
                      QuoteEscape(escape, r.ch), getchar(r.s))

getquote(qch, s) == getquoteLoop(qch, <<>>, FALSE, getchar(s))

S_long_close == <<"\"", "\"", "\"">>

S_long_open == <<"\"", "\"", "[">>

\* The stream after the character r of a long quote: after a "]" the next three
\* characters are read, and written back unless they close the literal.
LongQuoteAhead(r) ==
    IF r.ch = "]" THEN readchar(r.s, 3) ELSE [chars |-> <<>>, s |-> r.s]

RECURSIVE getlongquoteLoop(_, _)
getlongquoteStep(qstr, r, n) ==
    IF r.ch = "]" /\ JoinChars(n.chars) = S_long_close THEN Token("q", qstr, n.s)
    ELSE getlongquoteLoop(Append(qstr, r.ch), getchar(writechar(n.s, n.chars)))

getlongquoteLoop(qstr, r) ==
    IF r.ch = None THEN Raised("NotImplementedError", r.s)
    ELSE getlongquoteStep(qstr, r, LongQuoteAhead(r))

getlongquote(s) == getlongquoteLoop(<<>>, getchar(s))

getdquoteOf(qch, n) ==
    IF JoinChars(n.chars) = S_long_open
    THEN getlongquote(n.s)
    ELSE getquote(qch, writechar(n.s, n.chars))

getdquote(qch, s) == getdquoteOf(qch, readchar(s, 3))

\* gettoken: dispatch on the first character (char_type).
gettokenOf(r) ==
    IF r.ch = None THEN [tok |-> NoToken, s |-> r.s, raised |-> ""]
    ELSE IF r.ch \in {"(", "[", "{"} THEN Token("o", <<r.ch>>, r.s)
    ELSE IF r.ch \in {")", "]", "}"} THEN Token("c", <<r.ch>>, r.s)
    ELSE IF r.ch \in charset_space THEN getspace(<<r.ch>>, r.s)
    ELSE IF r.ch = "\"" THEN getdquote(r.ch, r.s)
    ELSE IF r.ch = "'" THEN getquote(r.ch, r.s)
    ELSE getword(<<r.ch>>, r.s)

gettoken(s) == gettokenOf(getchar(s))

(***************************************************************************)
(* SxElement and SxSyntaxError.                                            *)
(***************************************************************************)
BRACKET(b) == CASE b = <<>> -> <<>>
                [] b = <<"(">> -> <<")">>
                [] b = <<"[">> -> <<"]">>
                [] b = <<"{">> -> <<"}">>

SxElement(bracket, value) ==
    [open |-> bracket, close |-> BRACKET(bracket), children |-> <<>>, value |-> value]

S_syntax_error == <<":", " ", "s", "y", "n", "t", "a", "x", " ", "e", "r", "r", "o", "r", ":", " ">>

S_unmatched == <<"u", "n", "m", "a", "t", "c", "h", "e", "d", ":", " ", "\"">>

S_dots == <<" ", ".", ".", ".", " ">>

S_missing == <<"m", "i", "s", "s", "i", "n", "g", " ", "\"">>

\* f'{name}:{line}: syntax error: {msg}', line already formatted by the caller's value
SxSyntaxError(nm, line, msg) ==
    [type |-> "SxSyntaxError", text |-> nm \o <<":">> \o line \o S_syntax_error \o msg]

\* What Parser.__init__ passes as the error's line: self.stream.line, the text of
\* the current line (the line's number is self.stream.number).
ErrorLine(s) == s.line

UnmatchedMsg(open, tstr) == S_unmatched \o open \o S_dots \o tstr \o <<"\"">>

MissingMsg(close) == S_missing \o close \o <<"\"">>

(***************************************************************************)
(* Parser.__init__, one action per token.                                  *)
(***************************************************************************)
Top == stack[Len(stack)]

\* The test of a close token against the top of the stack (a mutant first).
CloseMatchesAny(tstr, top) == top.close # <<>>

CloseMatches(tstr, top) == tstr = top.close

\* The test after the input has ended.
StackClosed(stk) == Len(stk) = 1

AppendChild(stk, node) ==
    [stk EXCEPT ![Len(stk)].children = Append(@, node)]

IsToken(t, kinds) == t.raised = "" /\ t.tok # NoToken /\ t.tok[1] \in kinds

IsEnd(t) == t.raised = "" /\ t.tok = NoToken

\* ttype == 'o': push a new node.
DoOpen(t) ==
    /\ IsToken(t, {"o"})
    /\ stack' = Append(stack, SxElement(t.tok[2], NoValue))
    /\ stream' = t.s
    /\ tokens' = Append(tokens, t.tok)
    /\ UNCHANGED <<input, ret, name, option, pc, exc, tree, root, gen>>

\* ttype == 'c' and the token is the top's closer: pop, append to the new top.
DoClose(t) ==
    /\ IsToken(t, {"c"})
    /\ CloseMatches(t.tok[2], Top)
    /\ stack' = AppendChild(SubSeq(stack, 1, Len(stack) - 1), Top)
    /\ stream' = t.s
    /\ tokens' = Append(tokens, t.tok)
    /\ UNCHANGED <<input, ret, name, option, pc, exc, tree, root, gen>>

\* ttype == 'c' and the token is not the top's closer: raise.
DoUnmatched(t) ==
    /\ IsToken(t, {"c"})
    /\ ~CloseMatches(t.tok[2], Top)
    /\ exc' = SxSyntaxError(StreamName(name), ErrorLine(t.s),
                            UnmatchedMsg(Top.open, t.tok[2]))
    /\ pc' = "raised"
    /\ stream' = t.s
    /\ tokens' = Append(tokens, t.tok)
    /\ UNCHANGED <<input, ret, name, option, stack, tree, root, gen>>

\* any other token: a leaf child of `last`, which is always the top of the stack.
DoLeaf(t) ==
    /\ IsToken(t, {"s", "q", "w"})
    /\ stack' = AppendChild(stack, SxElement(<<>>, t.tok))
    /\ stream' = t.s
    /\ tokens' = Append(tokens, t.tok)
    /\ UNCHANGED <<input, ret, name, option, pc, exc, tree, root, gen>>

\* the input has ended with only the root on the stack: self.tree = stack.pop().
DoEnd(t) ==
    /\ IsEnd(t)
    /\ StackClosed(stack)
    /\ tree' = Top
    /\ stack' = SubSeq(stack, 1, Len(stack) - 1)
    /\ pc' = "parsed"
    /\ stream' = t.s
    /\ UNCHANGED <<input, ret, name, option, tokens, exc, root, gen>>

\* the input has ended with a bracket open: raise.
DoMissing(t) ==
    /\ IsEnd(t)
    /\ ~StackClosed(stack)
    /\ exc' = SxSyntaxError(StreamName(name), ErrorLine(t.s), MissingMsg(Top.close))
    /\ pc' = "raised"
    /\ stream' = t.s
    /\ UNCHANGED <<input, ret, name, option, stack, tokens, tree, root, gen>>

\* gettoken raised: the input ended inside a quoted string or a long quote.
DoLexRaise(t) ==
    /\ t.raised # ""
    /\ exc' = [type |-> t.raised, text |-> <<>>]
    /\ pc' = "raised"
    /\ stream' = t.s
    /\ UNCHANGED <<input, ret, name, option, stack, tokens, tree, root, gen>>

ParseOpen == pc = "parse" /\ DoOpen(gettoken(stream))

ParseClose == pc = "parse" /\ DoClose(gettoken(stream))

ParseUnmatched == pc = "parse" /\ DoUnmatched(gettoken(stream))

ParseLeaf == pc = "parse" /\ DoLeaf(gettoken(stream))

ParseEnd == pc = "parse" /\ DoEnd(gettoken(stream))

ParseMissing == pc = "parse" /\ DoMissing(gettoken(stream))

LexRaise == pc = "parse" /\ DoLexRaise(gettoken(stream))

ParseNext ==
    \/ ParseOpen
    \/ ParseClose
    \/ ParseUnmatched
    \/ ParseLeaf
    \/ ParseEnd
    \/ ParseMissing
    \/ LexRaise

(***************************************************************************)
(* Operations of str the generator uses.                                   *)
(***************************************************************************)
\* the characters str.strip() and str.lstrip() remove, as far as the model's go
Whitespace == {" ", "\t", "\n", "\r"}

Repeat(text, n) == Join([i \in 1..n |-> text])

RECURSIVE Count(_, _)
Count(text, ch) ==
    IF text = <<>> THEN 0
    ELSE (IF Head(text) = ch THEN 1 ELSE 0) + Count(Tail(text), ch)

\* the index of the first ch in text, 0 if there is none
RECURSIVE Find(_, _, _)
Find(text, ch, i) ==
    IF i > Len(text) THEN 0 ELSE IF text[i] = ch THEN i ELSE Find(text, ch, i + 1)

Before(text, i) == SubSeq(text, 1, i - 1)

After(text, i) == SubSeq(text, i + 1, Len(text))

\* text.split(sep, 1)
SplitFirstAt(text, i) == IF i = 0 THEN <<text>> ELSE <<Before(text, i), After(text, i)>>

SplitFirst(text, sep) == SplitFirstAt(text, Find(text, sep, 1))

\* text.split(sep)
RECURSIVE Split(_, _)
SplitAt(text, sep, i) ==
    IF i = 0 THEN <<text>> ELSE <<Before(text, i)>> \o Split(After(text, i), sep)

Split(text, sep) == SplitAt(text, sep, Find(text, sep, 1))

RECURSIVE LStrip(_)
LStrip(text) ==
    IF text # <<>> /\ Head(text) \in Whitespace THEN LStrip(Tail(text)) ELSE text

RECURSIVE RStrip(_)
RStrip(text) ==
    IF text # <<>> /\ text[Len(text)] \in Whitespace
    THEN RStrip(SubSeq(text, 1, Len(text) - 1)) ELSE text

Strip(text) == RStrip(LStrip(text))

\* text.replace(ch, rep)
RECURSIVE Replace(_, _, _)
Replace(text, ch, rep) ==
    IF text = <<>> THEN <<>>
    ELSE (IF Head(text) = ch THEN rep ELSE <<Head(text)>>) \o Replace(Tail(text), ch, rep)

Lower(c) ==
    CASE c = "A" -> "a" [] c = "B" -> "b" [] c = "C" -> "c" [] c = "D" -> "d"
      [] c = "E" -> "e" [] c = "F" -> "f" [] c = "G" -> "g" [] c = "H" -> "h"
      [] c = "I" -> "i" [] c = "J" -> "j" [] c = "K" -> "k" [] c = "L" -> "l"
      [] c = "M" -> "m" [] c = "N" -> "n" [] c = "O" -> "o" [] c = "P" -> "p"
      [] c = "Q" -> "q" [] c = "R" -> "r" [] c = "S" -> "s" [] c = "T" -> "t"
      [] c = "U" -> "u" [] c = "V" -> "v" [] c = "W" -> "w" [] c = "X" -> "x"
      [] c = "Y" -> "y" [] c = "Z" -> "z" [] OTHER -> c

\* text.lower()
ToLower(text) == [i \in 1..Len(text) |-> Lower(text[i])]

SetMin(S) == CHOOSE x \in S : \A y \in S : x <= y

(***************************************************************************)
(* GenHTML: qstrip, encode, untabify, reindent.                            *)
(***************************************************************************)
qstrip(qstr) ==
    IF Len(qstr) >= 2 /\ qstr[1] = qstr[Len(qstr)] /\ qstr[1] \in {"'", "\""}
    THEN SubSeq(qstr, 2, Len(qstr) - 1)
    ELSE qstr

S_amp == <<"&", "a", "m", "p", ";">>

S_lt == <<"&", "l", "t", ";">>

S_gt == <<"&", "g", "t", ";">>

S_quot == <<"&", "q", "u", "o", "t", ";">>

encode(estr) ==
    Replace(Replace(Replace(Replace(estr, "&", S_amp), "<", S_lt), ">", S_gt),
            "\"", S_quot)

\* the loop of untabify over the leading whitespace of the line
RECURSIVE untabifyLoop(_, _, _)
untabifyLoop(lline, lead, tab) ==
    IF lead = <<>> THEN lline
    ELSE untabifyLoop(lline \o (IF Head(lead) # "\t" THEN <<Head(lead)>>
                                ELSE Repeat(<<" ">>, tab - (Len(lline) % tab))),
                      Tail(lead), tab)

untabifyOf(line, rline, tab) ==
    untabifyLoop(<<>>, SubSeq(line, 1, Len(line) - Len(rline)), tab) \o rline

untabify(line, tab) ==
    IF Count(line, "\t") = 0 THEN line ELSE untabifyOf(line, LStrip(line), tab)

RECURSIVE DropLeadingBlank(_)
DropLeadingBlank(lines) ==
    IF lines # <<>> /\ Strip(Head(lines)) = <<>> THEN DropLeadingBlank(Tail(lines))
    ELSE lines

RECURSIVE DropTrailingBlank(_)
DropTrailingBlank(lines) ==
    IF lines # <<>> /\ Strip(lines[Len(lines)]) = <<>>
    THEN DropTrailingBlank(SubSeq(lines, 1, Len(lines) - 1))
    ELSE lines

LeadingWidth(l) == Len(l) - Len(LStrip(l))

\* The lines whose leading width enters the minimum: `for l in lines if l`
CutLines(lines) == {i \in 1..Len(lines) : lines[i] # <<>>}

REINDENT_MAX_CUT == 80

ReindentCut(lines) ==
    SetMin({REINDENT_MAX_CUT} \cup {LeadingWidth(lines[i]) : i \in CutLines(lines)})

ReindentLine(indent, l, cut) ==
    IF Strip(l) # <<>> THEN indent \o SubSeq(l, cut + 1, Len(l)) \o <<"\n">>
    ELSE <<"\n">>

ReindentLines(indent, lines, cut) ==
    Join([i \in 1..Len(lines) |-> ReindentLine(indent, lines[i], cut)])

ReindentOf(indent, lines) == ReindentLines(indent, lines, ReindentCut(lines))

UntabifyAll(lines, tab) == [i \in 1..Len(lines) |-> untabify(lines[i], tab)]

reindent(indent, text, tab) ==
    ReindentOf(indent, DropTrailingBlank(DropLeadingBlank(
                           UntabifyAll(Split(text, "\n"), tab))))

(***************************************************************************)
(* Text fragments and build_text.                                          *)
(***************************************************************************)
Text(text) == [mode |-> "TEXT", text |-> text]

text_indent == [mode |-> "INDENT", text |-> <<>>]

text_enter == [mode |-> "ENTER", text |-> <<>>]

text_leave == [mode |-> "LEAVE", text |-> <<>>]

text_newline == Text(<<"\n">>)

create_reindent(text) == [mode |-> "REINDENT", text |-> text]

BuildTextStats ==
    [rtext |-> <<>>, level |-> 0, indent |-> <<>>, newline |-> <<>>, raised |-> ""]

LastIsNewline(rtext) == rtext[Len(rtext)] = "\n"

\* one iteration of build_text's loop
BuildTextMode(st, text, tab) ==
    CASE text.mode = "TEXT" ->
            [st EXCEPT !.newline = IF st.newline = <<>> /\ Count(text.text, "\n") > 0
                                   THEN <<"\n">> ELSE @,
                       !.rtext = @ \o text.text]
      [] text.mode = "INDENT" ->
            [st EXCEPT !.rtext = (IF @ # <<>> /\ ~LastIsNewline(@)
                                  THEN Append(@, "\n") ELSE @)
                                 \o st.indent \o text.text]
      [] text.mode = "ENTER" ->
            [st EXCEPT !.newline = <<>>,
                       !.level = @ + 1,
                       !.indent = Repeat(<<" ", " ">>, st.level + 1),
                       !.rtext = @ \o text.text]
      [] text.mode = "LEAVE" ->
            IF st.newline # <<>> /\ st.rtext = <<>>
            THEN [st EXCEPT !.raised = "IndexError"]
            ELSE [st EXCEPT !.level = @ - 1,
                            !.indent = Repeat(<<" ", " ">>, st.level - 1),
                            !.rtext = (IF st.newline = <<>> THEN @
                                       ELSE (IF ~LastIsNewline(@) THEN @ \o st.newline
                                             ELSE @)
                                            \o Repeat(<<" ", " ">>, st.level - 1))
                                      \o text.text,
                            !.newline = <<"\n">>]
      [] text.mode = "REINDENT" ->
            [st EXCEPT !.rtext = @ \o reindent(st.indent, text.text, tab)]

RECURSIVE BuildTextLoop(_, _, _)
BuildTextLoop(st, texts, tab) ==
    IF texts = <<>> \/ st.raised # "" THEN st
    ELSE BuildTextLoop(BuildTextMode(st, Head(texts), tab), Tail(texts), tab)

build_text(texts, tab) == BuildTextLoop(BuildTextStats, texts, tab)

(***************************************************************************)
(* The semantic tree builder: parse_element.                               *)
(*                                                                         *)
(* An Element is [tag, attribute, text, children, flow].  NoneStr stands   *)
(* for None where the program tells None from '' (tag, text).  attribute   *)
(* is <<>> for None and for []: the program only tests its truth.  flow    *)
(* records the shape of attribute, which Python holds in the value itself: *)
(* TRUE when it is one list of groups per attribute block (a flow-control  *)
(* tag), FALSE when it is one flat list of groups.                         *)
(* A result [raised |-> type] stands for an exception.                     *)
(***************************************************************************)
NoneStr == <<"None">>

Element(tag, attribute, text, children, flow) ==
    [tag |-> tag, attribute |-> attribute, text |-> text, children |-> children,
     flow |-> flow]

Raise(type) == [raised |-> type]

IsRaised(r) == "raised" \in DOMAIN r

\* the first exception among the results, in order, or none
RECURSIVE FirstRaised(_)
FirstRaised(rs) ==
    IF rs = <<>> THEN ""
    ELSE IF IsRaised(Head(rs)) THEN Head(rs).raised
    ELSE FirstRaised(Tail(rs))

\* SxElement.get_string, is_type, has_value
get_string(e) == IF e.value # NoValue THEN e.value[2] ELSE <<>>

is_type(e, char) == e.value # NoValue /\ e.value[1] = char

has_value(e) == e.value # NoValue

FLOWCONTROL_TAGS == {<<"@", "u", "n", "l", "e", "s", "s">>, <<"@", "w", "h", "e", "n">>,
                     <<"@", "w", "h", "i", "l", "e">>}

IsTrueStr(s) == s # NoneStr /\ s # <<>>

\* c.tag is None and c.attribute
IsAttributeChild(c) == c.tag = NoneStr /\ c.attribute # <<>>

\* c.tag or not c.attribute
IsContentChild(c) == IsTrueStr(c.tag) \/ c.attribute = <<>>

AttributesOf(cs) == [i \in 1..Len(cs) |-> cs[i].attribute]

\* parse_element_tag after the children have been built
parse_element_tagOf(tag, allchildren) ==
    IF FirstRaised(allchildren) # "" THEN Raise(FirstRaised(allchildren))
    ELSE Element(tag,
                 IF tag \in FLOWCONTROL_TAGS
                 THEN AttributesOf(SelectSeq(allchildren, IsAttributeChild))
                 ELSE Join(AttributesOf(SelectSeq(allchildren, IsAttributeChild))),
                 NoneStr,
                 SelectSeq(allchildren, IsContentChild),
                 tag \in FLOWCONTROL_TAGS)

\* the loop of parse_element_attribute over leaf children already built
RECURSIVE AttributeGroups(_, _, _, _)
AttributeGroups(elements, built, params, data) ==
    IF elements = <<>> THEN (IF data # <<>> THEN Append(params, data) ELSE params)
    ELSE IF ~is_type(Head(elements), "s")
    THEN AttributeGroups(Tail(elements), Tail(built), params, Append(data, Head(built)))
    ELSE AttributeGroups(Tail(elements), Tail(built),
                         IF data # <<>> THEN Append(params, data) ELSE params, <<>>)

AllHaveValue(elements) == \A i \in 1..Len(elements) : has_value(elements[i])

\* open(path).read() on the model's file system: [found, text]
ReadFile(files, path) ==
    IF path \in DOMAIN files THEN [found |-> TRUE, text |-> files[path]]
    ELSE [found |-> FALSE, text |-> <<>>]

IsNotSpace(code) == ~is_type(code, "s")

SourceTexts(files, codes) ==
    [i \in 1..Len(codes) |-> ReadFile(files, get_string(codes[i]))]

parse_element_sourceOf(texts) ==
    IF \E i \in 1..Len(texts) : ~texts[i].found
    THEN Raise("FileNotFoundError")
    ELSE Element(NoneStr, <<>>, Join([i \in 1..Len(texts) |-> texts[i].text]), <<>>,
                 FALSE)

parse_element_textOf(text, children) ==
    IF FirstRaised(children) # "" THEN Raise(FirstRaised(children))
    ELSE Element(NoneStr, <<>>, text, children, FALSE)

RECURSIVE parse_element(_, _)
parse_element_children(children, files) ==
    [i \in 1..Len(children) |-> parse_element(children[i], files)]

parse_element_tag(element, files) ==
    IF element.children = <<>> THEN Raise("IndexError")
    ELSE parse_element_tagOf(get_string(Head(element.children)),
                             parse_element_children(Tail(element.children), files))

parse_element_attribute(element, files) ==
    IF ~AllHaveValue(element.children) THEN Raise("NotImplementedError")
    ELSE Element(NoneStr,
                 AttributeGroups(element.children,
                                 parse_element_children(element.children, files),
                                 <<>>, <<>>),
                 NoneStr, <<>>, FALSE)

parse_element_data(element, files) ==
    parse_element_sourceOf(SourceTexts(files, SelectSeq(element.children, IsNotSpace)))

parse_element_text(element, files) ==
    parse_element_textOf(IF ~is_type(element, "s") THEN get_string(element) ELSE <<>>,
                         parse_element_children(element.children, files))

parse_element(element, files) ==
    CASE element.open = <<"(">> -> parse_element_tag(element, files)
      [] element.open = <<"[">> -> parse_element_attribute(element, files)
      [] element.open = <<"{">> -> parse_element_data(element, files)
      [] element.open = <<>> -> parse_element_text(element, files)

(***************************************************************************)
(* The scripting namespace: exec, pyexec, pyvalue.                         *)
(*                                                                         *)
(* Python's exec is modelled for the statements the documents of the model *)
(* use: one assignment NAME=EXPR per line, EXPR an integer literal, a      *)
(* quoted string, a name, or NAME-INT / NAME+INT.  A value is a record     *)
(* [t, i, s]: an int, a str or None.  The context ctx carries the state    *)
(* generate() works on: env (options), locals, rubymap, plain, the event   *)
(* log (history) and raised, the exception that has ended the run, if any. *)
(***************************************************************************)
\* the loop bound of the model: build_while gives up after this many iterations
MaxIter == 4

PyNone == [t |-> "none", i |-> 0, s |-> <<>>]

PyInt(n) == [t |-> "int", i |-> n, s |-> <<>>]

PyStr(text) == [t |-> "str", i |-> 0, s |-> text]

\* bool(v)
Truthy(v) == (v.t = "int" /\ v.i # 0) \/ (v.t = "str" /\ v.s # <<>>)

\* str(v)
ToText(v) ==
    CASE v.t = "int" -> (IF v.i < 0 THEN <<"-">> \o DecimalStr(0 - v.i) ELSE DecimalStr(v.i))
      [] v.t = "str" -> v.s
      [] OTHER -> <<"N", "o", "n", "e">>

Letters == {"a", "b", "c", "d", "e", "f", "g", "h", "i", "j", "k", "l", "m", "n", "o",
            "p", "q", "r", "s", "t", "u", "v", "w", "x", "y", "z", "A", "B", "C", "D",
            "E", "F", "G", "H", "I", "J", "K", "L", "M", "N", "O", "P", "Q", "R", "S",
            "T", "U", "V", "W", "X", "Y", "Z", "_"}

Digits == {"0", "1", "2", "3", "4", "5", "6", "7", "8", "9"}

IsName(text) == text # <<>> /\ \A i \in 1..Len(text) : text[i] \in Letters

IsInt(text) == text # <<>> /\ \A i \in 1..Len(text) : text[i] \in Digits

DigitValue(c) == CHOOSE d \in 0..9 : Digit(d) = c

RECURSIVE IntValue(_)
IntValue(text) ==
    IF text = <<>> THEN 0
    ELSE 10 * IntValue(SubSeq(text, 1, Len(text) - 1)) + DigitValue(text[Len(text)])

IsQuoted(text) == Len(text) >= 2 /\ text[1] = "'" /\ text[Len(text)] = "'"
                  /\ Count(text, "'") = 2

PyResult(value, raised) == [value |-> value, raised |-> raised]

Bind(locals, key, value) ==
    [k \in DOMAIN locals \cup {key} |-> IF k = key THEN value ELSE locals[k]]

PyLookup(locals, nm) ==
    IF nm \in DOMAIN locals THEN PyResult(locals[nm], "")
    ELSE IF nm = <<"N", "o", "n", "e">> THEN PyResult(PyNone, "")
    ELSE PyResult(PyNone, "NameError")

PyArith(left, sign, n) ==
    IF left.raised # "" THEN left
    ELSE IF left.value.t # "int" THEN PyResult(PyNone, "TypeError")
    ELSE PyResult(PyInt(left.value.i + sign * n), "")

PyBinary(locals, expr, op, sign, at) ==
    IF IsName(Before(expr, at)) /\ IsInt(After(expr, at))
    THEN PyArith(PyLookup(locals, Before(expr, at)), sign, IntValue(After(expr, at)))
    ELSE PyResult(PyNone, "NotModelled")

PyEval(locals, expr) ==
    IF IsInt(expr) THEN PyResult(PyInt(IntValue(expr)), "")
    ELSE IF IsQuoted(expr) THEN PyResult(PyStr(SubSeq(expr, 2, Len(expr) - 1)), "")
    ELSE IF IsName(expr) THEN PyLookup(locals, expr)
    ELSE IF Find(expr, "-", 1) > 0 THEN PyBinary(locals, expr, "-", -1, Find(expr, "-", 1))
    ELSE IF Find(expr, "+", 1) > 0 THEN PyBinary(locals, expr, "+", 1, Find(expr, "+", 1))
    ELSE PyResult(PyNone, "NotModelled")

\* NAME=EXPR: bind NAME in locals
PyAssign(locals, target, r) ==
    IF ~IsName(target) THEN [locals |-> locals, raised |-> "NotModelled"]
    ELSE IF r.raised # "" THEN [locals |-> locals, raised |-> r.raised]
    ELSE [locals |-> Bind(locals, target, r.value), raised |-> ""]

PyStatementAt(locals, line, at) ==
    IF at = 0 THEN [locals |-> locals, raised |-> "NotModelled"]
    ELSE PyAssign(locals, Strip(Before(line, at)), PyEval(locals, Strip(After(line, at))))

PyStatement(locals, line) == PyStatementAt(locals, line, Find(line, "=", 1))

\* exec(src, globals, locals): the lines of src in order, until one raises
RECURSIVE PyExecLines(_, _)
PyExecLines(r, lines) ==
    IF lines = <<>> \/ r.raised # "" THEN r
    ELSE IF Head(lines) = <<>> THEN PyExecLines(r, Tail(lines))
    ELSE PyExecLines(PyStatement(r.locals, Head(lines)), Tail(lines))

PyExec(locals, src) == PyExecLines([locals |-> locals, raised |-> ""], Split(src, "\n"))

NewContext(env) ==
    [env |-> env, locals |-> <<>>, rubymap |-> [child |-> <<>>, value |-> <<>>],
     plain |-> FALSE, log |-> <<>>, raised |-> ""]

Logged(ctx, event) == [ctx EXCEPT !.log = Append(@, event)]

ExecEvent(role, src, pre, r) ==
    [ev |-> "exec", role |-> role, src |-> src, pre |-> pre, post |-> r.locals]

\* pyexec once the source has been re-indented: `if not src: return`
pyexecOf(ctx, role, src, r) ==
    Logged([ctx EXCEPT !.locals = r.locals, !.raised = r.raised],
           ExecEvent(role, src, ctx.locals, r))

pyexecSrc(ctx, role, src) ==
    IF src = <<>> THEN ctx ELSE pyexecOf(ctx, role, src, PyExec(ctx.locals, src))

\* role is history only: "init", "update" (build_flowcontrol) or "snippet" (exec)
pyexec(ctx, role, src) ==
    IF ctx.raised # "" THEN ctx
    ELSE IF src = NoneStr THEN [ctx EXCEPT !.raised = "AttributeError"]
    ELSE pyexecSrc(ctx, role, reindent(<<>>, src, ctx.env.tab_width))

S_HTML == <<"H", "T", "M", "L">>

\* self.locals['HTML'] = None   (a mutant first: HTML keeps its last value)
ResetOutputKeep(locals) ==
    IF S_HTML \in DOMAIN locals THEN locals ELSE Bind(locals, S_HTML, PyNone)

ResetOutput(locals) == Bind(locals, S_HTML, PyNone)

\* self.locals['HTML'] or ''
OutputText(locals) == IF Truthy(locals[S_HTML]) THEN ToText(locals[S_HTML]) ELSE <<>>

\* GenHTML.exec: [text, ctx]
execOf(ctx) ==
    IF ctx.raised # "" THEN [text |-> <<>>, ctx |-> ctx]
    ELSE [text |-> OutputText(ctx.locals),
          ctx |-> Logged(ctx, [ev |-> "emit", text |-> OutputText(ctx.locals),
                              locals |-> ctx.locals])]

exec(ctx, src) ==
    execOf(pyexec([ctx EXCEPT !.locals = ResetOutput(@)], "snippet", src))

\* pyvalue (a mutant first: a name that is absent reads as true)
pyvalueAbsentTrue(ctx, nm) ==
    IF nm # <<>> /\ nm \in DOMAIN ctx.locals THEN ctx.locals[nm] ELSE PyInt(1)

pyvalue(ctx, nm) ==
    IF nm # <<>> /\ nm \in DOMAIN ctx.locals THEN ctx.locals[nm] ELSE PyNone

(***************************************************************************)
(* RubyMap and update_ruby_dict.                                           *)
(***************************************************************************)
NewRubyMap == [child |-> <<>>, value |-> <<>>]

\* RubyMap.get: [found, value]; found is FALSE where the program returns None
RECURSIVE RubyGet(_, _)
RubyGet(rmap, key) ==
    IF key = <<>> THEN [found |-> TRUE, value |-> rmap.value]
    ELSE IF Head(key) \notin DOMAIN rmap.child THEN [found |-> FALSE, value |-> <<>>]
    ELSE RubyGet(rmap.child[Head(key)], Tail(key))

ChildOf(rmap, kchr) ==
    IF kchr \in DOMAIN rmap.child THEN rmap.child[kchr] ELSE NewRubyMap

SetChild(rmap, kchr, child) ==
    [rmap EXCEPT !.child = [c \in DOMAIN rmap.child \cup {kchr} |->
                               IF c = kchr THEN child ELSE rmap.child[c]]]

\* RubyMap.set
RECURSIVE RubySet(_, _, _)
RubySet(rmap, key, value) ==
    IF key = <<>> THEN [rmap EXCEPT !.value = value]
    ELSE SetChild(rmap, Head(key), RubySet(ChildOf(rmap, Head(key)), Tail(key), value))

StripAll(parts) == [i \in 1..Len(parts) |-> Strip(parts[i])]

\* the readings of 'base:r1,r2,...': one pair for one reading, else one per character
RubyPairs(keys, vals) ==
    IF Len(vals) = 1 THEN <<<<keys, vals[1]>>>>
    ELSE [n \in 1..Len(keys) |-> <<<<keys[n]>>, IF n <= Len(vals) THEN vals[n] ELSE <<>>>>]

\* update_ruby_dict: [found, value, rubymap]; found is FALSE for `return None`
update_ruby_dictOf(rmap, rpdata, keys, smap) ==
    IF ~smap.found /\ Len(rpdata) = 1
    THEN [found |-> FALSE, value |-> <<>>, rubymap |-> rmap]
    ELSE IF Len(rpdata) > 1
    THEN [found |-> TRUE,
          value |-> RubyPairs(keys, StripAll(Split(rpdata[2], ","))),
          rubymap |-> RubySet(rmap, keys, RubyPairs(keys, StripAll(Split(rpdata[2], ","))))]
    ELSE [found |-> TRUE, value |-> smap.value,
          rubymap |-> RubySet(rmap, keys, smap.value)]

update_ruby_dictKeys(rmap, rpdata, keys) ==
    update_ruby_dictOf(rmap, rpdata, keys, RubyGet(rmap, keys))

update_ruby_dictData(rmap, rpdata) ==
    update_ruby_dictKeys(rmap, rpdata, Strip(rpdata[1]))

update_ruby_dict(rmap, text) == update_ruby_dictData(rmap, SplitFirst(text, ":"))

\* update_ruby_dict_file: the lines of the file that are neither blank nor comments
RECURSIVE update_ruby_dict_lines(_, _)
update_ruby_dict_lines(rmap, lines) ==
    IF lines = <<>> THEN rmap
    ELSE IF Strip(Head(lines)) = <<>> \/ Head(Strip(Head(lines))) = "#"
    THEN update_ruby_dict_lines(rmap, Tail(lines))
    ELSE update_ruby_dict_lines(update_ruby_dict(rmap, Strip(Head(lines))).rubymap,
                                Tail(lines))

S_rp_open == <<"<", "r", "p", ">", "(", "<", "/", "r", "p", ">", "<", "r", "t", ">">>

S_rp_close == <<"<", "/", "r", "t", ">", "<", "r", "p", ">", ")", "<", "/", "r", "p", ">">>

build_text_ruby(param) ==
    [i \in 1..Len(param) |->
        Text(encode(param[i][1]) \o S_rp_open \o encode(param[i][2]) \o S_rp_close)]

(***************************************************************************)
(* The generator: build_element and its handlers.  Each returns            *)
(* [texts, ctx]: the Text fragments and the context after them.  Once      *)
(* ctx.raised is set every handler returns at once, as an exception        *)
(* unwinds the program.                                                    *)
(***************************************************************************)
TAG_SINGLE == {
    <<"a", "r", "e", "a">>, <<"b", "a", "s", "e">>,
    <<"b", "g", "s", "o", "u", "n", "d">>, <<"c", "o", "l">>,
    <<"e", "m", "b", "e", "d">>, <<"f", "r", "a", "m", "e">>, <<"h", "r">>,
    <<"i", "m", "a", "g", "e">>, <<"k", "e", "y", "g", "e", "n">>,
    <<"l", "i", "n", "k">>, <<"m", "e", "n", "u", "i", "t", "e", "m">>,
    <<"m", "e", "t", "a">>, <<"p", "a", "r", "a", "m">>,
    <<"s", "o", "u", "r", "c", "e">>, <<"t", "r", "a", "c", "k">>}

TAG_EMBED == {
    <<"a">>, <<"a", "b", "b", "r">>, <<"a", "c", "r", "o", "n", "y", "m">>,
    <<"a", "u", "d", "i", "o">>, <<"b">>, <<"b", "d", "i">>,
    <<"b", "d", "o">>, <<"b", "i", "g">>, <<"b", "l", "i", "n", "k">>,
    <<"b", "u", "t", "t", "o", "n">>, <<"c", "a", "n", "v", "a", "s">>,
    <<"c", "i", "t", "e">>, <<"c", "o", "d", "e">>, <<"d", "a", "t", "a">>,
    <<"d", "e", "l">>, <<"d", "f", "n">>, <<"e", "m">>,
    <<"f", "o", "n", "t">>, <<"i">>, <<"i", "n", "s">>, <<"k", "b", "d">>,
    <<"l", "a", "b", "e", "l">>, <<"m", "a", "r", "k">>,
    <<"m", "e", "t", "e", "r">>, <<"n", "o", "b", "r">>,
    <<"o", "u", "t", "p", "u", "t">>,
    <<"p", "r", "o", "g", "r", "e", "s", "s">>, <<"q">>, <<"r", "b">>,
    <<"r", "b", "c">>, <<"r", "p">>, <<"r", "t">>, <<"r", "t", "c">>,
    <<"r", "u", "b", "y">>, <<"s">>, <<"s", "a", "m", "p">>,
    <<"s", "m", "a", "l", "l">>, <<"s", "p", "a", "c", "e", "r">>,
    <<"s", "p", "a", "n">>, <<"s", "t", "r", "i", "k", "e">>,
    <<"s", "t", "r", "o", "n", "g">>, <<"s", "u", "b">>, <<"s", "u", "p">>,
    <<"t", "d">>, <<"t", "e", "x", "t", "a", "r", "e", "a">>, <<"t", "h">>,
    <<"t", "i", "m", "e">>, <<"t", "t">>, <<"u">>, <<"v", "a", "r">>}

TAG_EMBED_SINGLE == {
    <<"b", "r">>, <<"i", "m", "g">>, <<"i", "n", "p", "u", "t">>,
    <<"w", "b", "r">>}

TAG_INDIVIDUAL == {<<"t", "i", "t", "l", "e">>}

TAG_ALTCODE == {<<"s", "c", "r", "i", "p", "t">>, <<"s", "t", "y", "l", "e">>}

R(texts, ctx) == [texts |-> texts, ctx |-> ctx]

\* p + r: the fragments of r after those of p, the context of r
Then(p, r) == [texts |-> p.texts \o r.texts, ctx |-> r.ctx]

Raising(ctx, type) == [ctx EXCEPT !.raised = type]

\* build_attribute_text
AttributeText(attr) ==
    <<" ">> \o attr[1] \o <<"=", "\"">> \o encode(attr[2]) \o <<"\"">>

build_attribute_text(attributes) ==
    Join([i \in 1..Len(attributes) |-> AttributeText(attributes[i])])

\* one [name, value] of build_attribute_list from the rendered text of a group
AttributeOf(adata) ==
    <<adata[1], qstrip(IF Len(adata) > 1 THEN adata[2] ELSE <<>>)>>

AttributePair(attr) == AttributeOf(SplitFirst(attr, "="))

STag(tag, attribute) == <<"<">> \o tag \o build_attribute_text(attribute) \o <<">">>

ETag(tag) == <<"<", "/">> \o tag \o <<">">>

build_element_embed(ltag, stag, etag, children) ==
    IF ltag \in TAG_SINGLE THEN <<Text(stag)>>
    ELSE <<Text(stag)>> \o children \o <<Text(etag)>>

build_element_embed_single(ltag, stag, etag, children) == <<Text(stag)>>

build_element_single(ltag, stag, etag, children) == <<text_indent, Text(stag)>>

build_element_individual(ltag, stag, etag, children) ==
    <<text_indent, Text(stag)>> \o children \o <<Text(etag), text_newline>>

\* (a mutant first: the children start on a line of their own)
build_element_normalIndented(ltag, stag, etag, children) ==
    <<text_indent, Text(stag), text_enter, text_indent>> \o children
    \o <<text_leave, Text(etag), text_newline>>

build_element_normal(ltag, stag, etag, children) ==
    <<text_indent, Text(stag), text_enter>> \o children
    \o <<text_leave, Text(etag), text_newline>>

\* tag_table.get(ltag, build_element_normal): the later update wins
tag_table(ltag, stag, etag, children) ==
    IF ltag \in TAG_INDIVIDUAL THEN build_element_individual(ltag, stag, etag, children)
    ELSE IF ltag \in TAG_SINGLE THEN build_element_single(ltag, stag, etag, children)
    ELSE IF ltag \in TAG_EMBED_SINGLE
    THEN build_element_embed_single(ltag, stag, etag, children)
    ELSE IF ltag \in TAG_EMBED THEN build_element_embed(ltag, stag, etag, children)
    ELSE build_element_normal(ltag, stag, etag, children)

build_element_altcode(stag, etag, text) ==
    <<text_indent, Text(stag), text_newline, text_enter, create_reindent(text),
      text_leave, text_indent, Text(etag), text_newline>>

\* time.strftime(format) on the clock of the environment: a format without
\* directives is its own text, any other renders to a text of the clock
DEFAULT_DATE_FORMAT == <<"%", "Y", "/", "%", "m", "/", "%", "d", " ", "%", "H", ":", "%", "M",
                         ":", "%", "S">>

strftime(format, clock) == IF Count(format, "%") = 0 THEN format ELSE clock

\* [text, ctx] of build_text over the fragments of r, with plain set back to `plain`
ChildrenTextOf(r, plain, bt) ==
    [text |-> bt.rtext,
     ctx |-> [r.ctx EXCEPT !.plain = IF r.ctx.raised = "" THEN plain ELSE @,
                           !.raised = IF @ = "" THEN bt.raised ELSE @]]

ChildrenText(r, plain) ==
    ChildrenTextOf(r, plain, build_text(r.texts, r.ctx.env.tab_width))

\* the iteration of build_ruby_auto's while loop over one text child
RubyAutoState(text) ==
    [bpos |-> 1, pending |-> <<>>, check |-> <<>>, enter |-> FALSE, text |-> text]

RubyFlushPending(st, etag) ==
    IF st.pending = <<>> THEN st
    ELSE [st EXCEPT !.text = @ \o (IF st.enter THEN <<etag>> ELSE <<>>)
                               \o <<Text(encode(st.pending))>>,
                    !.enter = FALSE,
                    !.pending = <<>>]

RubyEmit(st, mpos, stag) ==
    [st EXCEPT !.text = @ \o (IF ~st.enter THEN <<stag>> ELSE <<>>)
                          \o build_text_ruby(mpos.value),
               !.enter = TRUE,
               !.check = <<>>]

RubyAdvance(st, bchr) == [st EXCEPT !.check = Append(@, bchr), !.bpos = @ + 1]

RubyPend(st, bchr) == [st EXCEPT !.pending = Append(@, bchr), !.bpos = @ + 1]

RubyAutoEnd(st, etag) ==
    st.text \o (IF st.enter THEN <<etag>> ELSE <<>>)
            \o (IF st.pending # <<>> THEN <<Text(encode(st.pending))>> ELSE <<>>)

\* (a mutant first: the scan emits at the first node that has readings)
RECURSIVE RubyAutoLoopShortest(_, _, _, _, _, _)
RubyAutoLoopShortest(st, mpos, base, rubymap, stag, etag) ==
    IF st.bpos > Len(base)
    THEN RubyAutoEnd(IF st.check # <<>> THEN RubyEmit(st, mpos, stag) ELSE st, etag)
    ELSE IF st.check # <<>> /\ mpos.value # <<>>
    THEN RubyAutoLoopShortest(RubyEmit(st, mpos, stag), rubymap, base, rubymap, stag, etag)
    ELSE IF base[st.bpos] \in DOMAIN mpos.child
    THEN RubyAutoLoopShortest(RubyAdvance(RubyFlushPending(st, etag), base[st.bpos]),
                              mpos.child[base[st.bpos]], base, rubymap, stag, etag)
    ELSE IF st.check = <<>>
    THEN RubyAutoLoopShortest(RubyPend(st, base[st.bpos]), mpos, base, rubymap, stag, etag)
    ELSE RubyAutoLoopShortest(RubyEmit(st, mpos, stag), rubymap, base, rubymap, stag, etag)

RECURSIVE RubyAutoLoop(_, _, _, _, _, _)
RubyAutoLoop(st, mpos, base, rubymap, stag, etag) ==
    IF st.bpos > Len(base)
    THEN RubyAutoEnd(IF st.check # <<>> THEN RubyEmit(st, mpos, stag) ELSE st, etag)
    ELSE IF base[st.bpos] \in DOMAIN mpos.child
    THEN RubyAutoLoop(RubyAdvance(RubyFlushPending(st, etag), base[st.bpos]),
                      mpos.child[base[st.bpos]], base, rubymap, stag, etag)
    ELSE IF st.check = <<>>
    THEN RubyAutoLoop(RubyPend(st, base[st.bpos]), mpos, base, rubymap, stag, etag)
    ELSE RubyAutoLoop(RubyEmit(st, mpos, stag), rubymap, base, rubymap, stag, etag)

RubyAutoScan(text, base, rubymap, stag, etag) ==
    RubyAutoLoop(RubyAutoState(text), rubymap, base, rubymap, stag, etag)

\* build_element_ruby on one text child: register or look up, then render
RubyTextOf(ctx, param, smap) ==
    R(IF ~smap.found THEN <<Text(SplitFirst(param, ":")[1])>>
      ELSE build_text_ruby(smap.value),
      [ctx EXCEPT !.rubymap = smap.rubymap])

RubyText(ctx, param) == RubyTextOf(ctx, param, update_ruby_dict(ctx.rubymap, param))

\* build_ruby_dict: the dictionary files named by the dict attributes
RECURSIVE RubyDictFiles(_, _)
RubyDictFile(ctx, f) ==
    IF ~f.found THEN Raising(ctx, "FileNotFoundError")
    ELSE [ctx EXCEPT !.rubymap = update_ruby_dict_lines(@, Split(f.text, "\n"))]

RubyDictFiles(ctx, attribute) ==
    IF attribute = <<>> \/ ctx.raised # "" THEN ctx
    ELSE IF ToLower(Head(attribute)[1]) # <<"d", "i", "c", "t">>
    THEN RubyDictFiles(ctx, Tail(attribute))
    ELSE RubyDictFiles(RubyDictFile(ctx, ReadFile(ctx.env.files, Head(attribute)[2])),
                       Tail(attribute))

\* the positional parameters of a flow-control tag: the texts of one attribute block
GroupTexts(group) == [i \in 1..Len(group) |-> group[i].text]

BlockTexts(block) == Join([i \in 1..Len(block) |-> GroupTexts(block[i])])

FlowParams(attribute) == [i \in 1..Len(attribute) |-> BlockTexts(attribute[i])]

RECURSIVE pyexecAll(_, _, _)
pyexecAll(ctx, role, statements) ==
    IF statements = <<>> THEN ctx
    ELSE pyexecAll(pyexec(ctx, role, Head(statements)), role, Tail(statements))

TestEvent(nm, value, ctx) ==
    [ev |-> "test", name |-> nm, value |-> Truthy(value), pre |-> ctx.locals]

\* the test of a flow-control tag: pyvalue(name), negated for @unless
FlowTest(ltag, value) ==
    IF ltag = <<"@", "u", "n", "l", "e", "s", "s">> THEN ~Truthy(value) ELSE Truthy(value)

Tested(ctx, nm) == Logged(ctx, TestEvent(nm, pyvalue(ctx, nm), ctx))

\* the update statements of updater, after the children: for param in params[1:]
\* (a mutant first: the update statements are not run)
UpdatedNever(r, params) == r

Updated(r, params) == R(r.texts, pyexecAll(r.ctx, "update", Join(Tail(params))))

Left(r) == R(r.texts, IF r.ctx.raised = "" THEN Logged(r.ctx, [ev |-> "leave"]) ELSE r.ctx)

RECURSIVE build_element(_, _)
RECURSIVE build_while(_, _, _, _, _)

\* build_element_children: reduce(lambda p, v: p + self.build_element(v), ...)
RECURSIVE build_element_childrenLoop(_, _)
build_element_childrenLoop(p, children) ==
    IF children = <<>> \/ p.ctx.raised # "" THEN p
    ELSE build_element_childrenLoop(Then(p, build_element(Head(children), p.ctx)),
                                    Tail(children))

build_element_children(children, ctx) == build_element_childrenLoop(R(<<>>, ctx), children)

get_element_children(element, ctx) == build_element_children(element.children, ctx)

get_element_children_text(element, ctx) ==
    ChildrenText(get_element_children(element, [ctx EXCEPT !.plain = TRUE]), ctx.plain)

\* build_attribute_list: [list, ctx]
RECURSIVE AttributeRender(_, _, _)
AttributeRenderOf(attr, elements, t) ==
    AttributeRender(attr \o t.text, Tail(elements), t.ctx)

\* ''.join(self.build_text(self.build_element(element)) for element in elements)
AttributeRender(attr, elements, ctx) ==
    IF elements = <<>> \/ ctx.raised # "" THEN [text |-> attr, ctx |-> ctx]
    ELSE AttributeRenderOf(attr, elements,
                           ChildrenText(build_element(Head(elements), ctx), ctx.plain))

RECURSIVE build_attribute_listLoop(_, _, _)
build_attribute_listOf(rlist, attributes, t) ==
    build_attribute_listLoop(Append(rlist, AttributePair(t.text)), Tail(attributes), t.ctx)

build_attribute_listLoop(rlist, attributes, ctx) ==
    IF attributes = <<>> \/ ctx.raised # "" THEN [list |-> rlist, ctx |-> ctx]
    ELSE build_attribute_listOf(rlist, attributes,
                                AttributeRender(<<>>, Head(attributes), ctx))

build_attribute_list(attributes, ctx) == build_attribute_listLoop(<<>>, attributes, ctx)

\* updater(): the children, then the update statements
updater(element, params, ctx) ==
    Updated(build_element_children(element.children, Logged(ctx, [ev |-> "body"])),
            params)

\* build_unless / build_when: updater() if the test holds, else []
build_whenOf(element, ltag, params, ctx, value) ==
    IF FlowTest(ltag, value) THEN updater(element, params, ctx) ELSE R(<<>>, ctx)

build_when(element, ltag, params, nm, ctx) ==
    build_whenOf(element, ltag, params, Tested(ctx, nm), pyvalue(ctx, nm))

\* build_while: while self.pyvalue(name): text += updater()
build_whileOf(element, params, nm, p, value, fuel) ==
    IF ~Truthy(value) THEN p
    ELSE IF fuel = 0 THEN R(p.texts, Raising(p.ctx, "MaxIter"))
    ELSE build_while(element, params, nm, Then(p, updater(element, params, p.ctx)),
                     fuel - 1)

build_while(element, params, nm, p, fuel) ==
    IF p.ctx.raised # "" THEN p
    ELSE build_whileOf(element, params, nm, R(p.texts, Tested(p.ctx, nm)),
                       pyvalue(p.ctx, nm), fuel)

\* flowcontrol(element.children, name, updater) if name else []
build_flowOf(element, ltag, params, nm, ctx) ==
    IF ctx.raised # "" \/ ~IsTrueStr(nm) THEN R(<<>>, ctx)
    ELSE IF ltag = <<"@", "w", "h", "i", "l", "e">>
    THEN build_while(element, params, nm, R(<<>>, ctx), MaxIter)
    ELSE build_when(element, ltag, params, nm, ctx)

\* build_flowcontrol: the name, after the init statements params[0][1:]
build_flowcontrolOf(element, ltag, params, ctx) ==
    IF params = <<>> \/ params[1] = <<>> THEN R(<<>>, ctx)
    ELSE build_flowOf(element, ltag, params, params[1][1],
                      pyexecAll(ctx, "init", Tail(params[1])))

build_flowcontrol(element, ltag, ctx) ==
    IF ~element.flow /\ element.attribute # <<>> THEN R(<<>>, Raising(ctx, "TypeError"))
    ELSE Left(build_flowcontrolOf(
                  element, ltag,
                  IF element.flow THEN FlowParams(element.attribute) ELSE <<>>,
                  Logged(ctx, [ev |-> "enter", tag |-> ltag,
                               params |-> IF element.flow
                                          THEN FlowParams(element.attribute)
                                          ELSE <<>>])))

\* build_python: reduce over the children, Text(callback(e.text)) for a text child
RECURSIVE build_pythonLoop(_, _, _)
PythonText(t) == R(IF t.ctx.raised # "" THEN <<>> ELSE <<Text(t.text)>>, t.ctx)

\* the callback of build_python_run: the output of the external interpreter
run(ctx, src) ==
    IF src = NoneStr THEN [text |-> <<>>, ctx |-> Raising(ctx, "AttributeError")]
    ELSE [text |-> ctx.env.stdout, ctx |-> ctx]

PythonChild(e, callback, ctx) ==
    IF IsTrueStr(e.tag) THEN build_element(e, ctx)
    ELSE IF callback = "exec" THEN PythonText(exec(ctx, e.text))
    ELSE PythonText(run(ctx, e.text))

build_pythonLoop(p, elements, callback) ==
    IF elements = <<>> \/ p.ctx.raised # "" THEN p
    ELSE build_pythonLoop(Then(p, PythonChild(Head(elements), callback, p.ctx)),
                          Tail(elements), callback)

build_python(elements, callback, ctx) == build_pythonLoop(R(<<>>, ctx), elements, callback)

\* build_element_ruby
RECURSIVE build_element_rubyLoop(_, _)
RubyChild(e, ctx) ==
    IF IsTrueStr(e.tag) THEN build_element(e, ctx)
    ELSE IF ~IsTrueStr(e.text) THEN R(<<>>, ctx)
    ELSE RubyText(ctx, e.text)

build_element_rubyLoop(p, elements) ==
    IF elements = <<>> \/ p.ctx.raised # "" THEN p
    ELSE build_element_rubyLoop(Then(p, RubyChild(Head(elements), p.ctx)), Tail(elements))

build_element_ruby(elements, ctx) == build_element_rubyLoop(R(<<>>, ctx), elements)

\* build_ruby_auto
RECURSIVE build_ruby_autoLoop(_, _, _, _)
RubyAutoChild(p, e, stag, etag) ==
    IF IsTrueStr(e.tag) THEN Then(p, build_element(e, p.ctx))
    ELSE IF ~IsTrueStr(e.text) THEN p
    ELSE R(RubyAutoScan(p.texts, e.text, p.ctx.rubymap, stag, etag), p.ctx)

build_ruby_autoLoop(p, elements, stag, etag) ==
    IF elements = <<>> \/ p.ctx.raised # "" THEN p
    ELSE build_ruby_autoLoop(RubyAutoChild(p, Head(elements), stag, etag),
                             Tail(elements), stag, etag)

build_ruby_auto(tag, attribute, element, ctx) ==
    build_ruby_autoLoop(R(<<>>, ctx), element.children,
                        Text(STag(Tail(tag), attribute)), Text(ETag(Tail(tag))))

Wrapped(before, r, after) == R(before \o r.texts \o after, r.ctx)

build_ruby(tag, attribute, element, ctx) ==
    Wrapped(<<Text(STag(Tail(tag), attribute))>>,
            build_element_ruby(element.children, ctx),
            <<Text(ETag(Tail(tag)))>>)

build_ruby_dictOf(t) == R(<<>>, t.ctx)

build_ruby_dict(tag, attribute, element, ctx) ==
    build_ruby_dictOf(get_element_children_text(element, RubyDictFiles(ctx, attribute)))

build_doctypeOf(tag, doctype, ctx) ==
    R(<<text_indent,
        Text(<<"<">> \o tag \o (IF doctype # <<>> THEN <<" ">> \o doctype ELSE doctype)
             \o <<">">>),
        text_newline>>, ctx)

build_doctypeText(tag, t) == build_doctypeOf(tag, Strip(t.text), t.ctx)

build_doctype(tag, attribute, element, ctx) ==
    build_doctypeText(tag, get_element_children_text(element, ctx))

build_commentOf(t) ==
    R(<<text_indent, Text(<<"<", "!", "-", "-", " ">>), Text(t.text),
        Text(<<" ", "-", "-", ">">>)>>, t.ctx)

\* a comment stamped with the time of the run
build_commentStamped(tag, attribute, element, ctx) ==
    build_commentOf([text |-> ctx.env.clock, ctx |-> ctx])

build_comment(tag, attribute, element, ctx) ==
    build_commentOf(get_element_children_text(element, ctx))

build_dateOf(t) ==
    R(<<Text(strftime(IF t.text # <<>> THEN t.text ELSE DEFAULT_DATE_FORMAT,
                      t.ctx.env.clock))>>, t.ctx)

build_date(tag, attribute, element, ctx) ==
    build_dateOf(get_element_children_text(element, ctx))

build_none(tag, attribute, element, ctx) == R(<<>>, ctx)

\* tag_command.get(ltag, self.build_none)(tag, attribute, element)
tag_command(ltag, tag, attribute, element, ctx) ==
    CASE ltag = <<"!", "d", "o", "c", "t", "y", "p", "e">> ->
            build_doctype(tag, attribute, element, ctx)
      [] ltag = <<"@", "c", "o", "m", "m", "e", "n", "t">> ->
            build_comment(tag, attribute, element, ctx)
      [] ltag = <<"$", "d", "a", "t", "e">> -> build_date(tag, attribute, element, ctx)
      [] ltag = <<"@", "r", "u", "b", "y">> -> build_ruby(tag, attribute, element, ctx)
      [] ltag = <<"#", "r", "u", "b", "y">> -> build_ruby_dict(tag, attribute, element, ctx)
      [] ltag = <<"$", "r", "u", "b", "y">> -> build_ruby_auto(tag, attribute, element, ctx)
      [] ltag = <<"@", "p", "y", "t", "h", "o", "n">> ->
            build_python(element.children, "exec", ctx)
      [] ltag = <<"$", "p", "y", "t", "h", "o", "n">> ->
            build_python(element.children, "run", ctx)
      [] OTHER -> build_none(tag, attribute, element, ctx)

\* build_element for an element without a tag: the children, then the text
TextFragment(text, plain) == Text(IF plain THEN text ELSE encode(text))

build_element_textOf(element, r) ==
    IF r.ctx.raised = "" /\ IsTrueStr(element.text)
    THEN R(Append(r.texts, TextFragment(element.text, r.ctx.plain)), r.ctx)
    ELSE r

AltcodeOf(stag, etag, t) == R(build_element_altcode(stag, etag, t.text), t.ctx)

TableOf(ltag, stag, etag, r) == R(tag_table(ltag, stag, etag, r.texts), r.ctx)

\* build_element after build_attribute_list
build_elementOf(element, ltag, a) ==
    IF a.ctx.raised # "" THEN R(<<>>, a.ctx)
    ELSE IF ltag = <<>> THEN build_element_textOf(element, get_element_children(element, a.ctx))
    ELSE IF ltag[1] \in {"!", "#", "$", "@"}
    THEN tag_command(ltag, element.tag, a.list, element, a.ctx)
    ELSE IF ltag \in TAG_ALTCODE
    THEN AltcodeOf(STag(element.tag, a.list), ETag(element.tag),
                   get_element_children_text(element, a.ctx))
    ELSE TableOf(ltag, STag(element.tag, a.list), ETag(element.tag),
                 get_element_children(element, a.ctx))

build_elementTag(element, ltag, ctx) ==
    IF ltag \in FLOWCONTROL_TAGS THEN build_flowcontrol(element, ltag, ctx)
    ELSE build_elementOf(element, ltag, build_attribute_list(element.attribute, ctx))

build_element(element, ctx) ==
    IF ctx.raised # "" THEN R(<<>>, ctx)
    ELSE build_elementTag(element,
                          IF IsTrueStr(element.tag) THEN ToLower(element.tag) ELSE <<>>,
                          ctx)

\* the newline build appends (a mutant first: always)
EndNewlineAlways(html) == Append(html, "\n")

EndNewline(html) ==
    IF html # <<>> /\ html[Len(html)] # "\n" THEN Append(html, "\n") ELSE html

\* build: [text, ctx]
buildOf(t) == [text |-> EndNewline(t.text), layout |-> t.text, ctx |-> t.ctx]

build(element, ctx) == buildOf(ChildrenText(build_element(element, ctx), ctx.plain))

(***************************************************************************)
(* generate(): parse_element on the tree, then build on the root.          *)
(***************************************************************************)
generateBuilt(r, b) == [root |-> r, text |-> b.text, layout |-> b.layout, ctx |-> b.ctx]

generateOf(r, env) ==
    IF IsRaised(r)
    THEN [root |-> NoTree, text |-> <<>>, layout |-> <<>>,
          ctx |-> Raising(NewContext(env), r.raised)]
    ELSE generateBuilt(r, build(r, NewContext(env)))

generate(tr, env) == generateOf(parse_element(tr, env.files), env)

\* what generate leaves behind: the text returned, the namespace, the dictionary
\* and the history of the run
Gen(g) ==
    [text |-> IF g.ctx.raised = "" THEN g.text ELSE <<>>,
     layout |-> IF g.ctx.raised = "" THEN g.layout ELSE <<>>,
     locals |-> g.ctx.locals, rubymap |-> g.ctx.rubymap, log |-> g.ctx.log]

\* the model's own cut-offs are not outcomes of the program
ModelCut == {"MaxIter", "NotModelled"}

Generated(g) ==
    /\ root' = g.root
    /\ gen' = Gen(g)
    /\ pc' = IF g.ctx.raised = "" THEN "done"
             ELSE IF g.ctx.raised \in ModelCut THEN "cut" ELSE "raised"
    /\ exc' = IF g.ctx.raised = "" THEN exc ELSE [type |-> g.ctx.raised, text |-> <<>>]

Generate ==
    /\ pc = "parsed"
    /\ Generated(generate(tree, option))
    /\ UNCHANGED <<input, ret, name, option, stream, stack, tokens, tree>>

Next == ParseNext \/ Generate

(***************************************************************************)
(* Documents and initial states.                                           *)
(***************************************************************************)
DEFAULT_TAB_WIDTH == 4

\* the environment of a run: the files it can open (dictionaries d1..d4 and an
\* include f), the text the clock renders to, the output of the external
\* interpreter
Files ==
    [p \in {<<"d", "1">>, <<"d", "2">>, <<"d", "3">>, <<"d", "4">>, <<"f">>} |->
        CASE p = <<"d", "1">> -> <<"A", "B", ":", "r", "\n", "A", ":", "s", "\n">>
          [] p = <<"d", "2">> -> <<"A", ":", "s", "\n", "A", "B", ":", "r", "\n">>
          [] p = <<"d", "3">> -> <<"#", " ", "r", "e", "a", "d", "i", "n", "g", "s", "\n", "A", ":", "s", "\n", "\n", "B", ":", "t", ",", " ", "u", "\n">>
          [] p = <<"d", "4">> -> <<"A", "B", ":", "r", "\n">>
          [] OTHER -> <<"x", "\n">>]

Clock == <<"t">>

Stdout == <<"o", "\n">>

NoGen == [text |-> <<>>, layout |-> <<>>, locals |-> <<>>, rubymap |-> NewRubyMap,
          log |-> <<>>]

InitDoc(nm, doc, tab) ==
    /\ input = doc
    /\ ret = NoValue
    /\ name = nm
    /\ option = [tab_width |-> tab, files |-> Files, clock |-> Clock, stdout |-> Stdout]
    /\ stream = NewStream(doc)
    /\ stack = <<SxElement(<<>>, NoValue)>>
    /\ tokens = <<>>
    /\ pc = "parse"
    /\ exc = NoExc
    /\ tree = NoTree
    /\ root = NoTree
    /\ gen = NoGen

ParseAlphabet == {"(", ")", "[", "]", "p", "\"", "\n"}

D_p_b == <<"(", "p", " ", "[", "b", ")">>

ParseDocs == SeqsUpTo(ParseAlphabet, MaxDocLen) \cup {D_p_b}

SourceNames == {<<"-">>, <<"d">>}

InitParser ==
    \E nm \in SourceNames, doc \in ParseDocs : InitDoc(nm, doc, DEFAULT_TAB_WIDTH)

SpecParser == InitParser /\ [][ParseNext]_vars

\* the pieces documents are written with
Quoted(text) == <<"\"">> \o text \o <<"\"">>

Parens(tag, rest) == <<"(">> \o tag \o rest \o <<")">>

Block(parts) == <<" ", "[">> \o parts \o <<"]">>

Arg(text) == <<" ">> \o Quoted(text)

RECURSIVE Args(_)
Args(texts) == IF texts = <<>> THEN <<>> ELSE Arg(Head(texts)) \o Args(Tail(texts))

\* (a [NAME SEP "VALUE"] "go")
AttrDoc(nm, sep, value) ==
    Parens(<<"a">>, Block(nm \o sep \o Quoted(value)) \o Arg(<<"g", "o">>))

AttrNames == {<<"h", "r", "e", "f">>, <<"i", "d">>}

AttrSeps == {<<"=">>, <<" ", "=", " ">>}

AttrValues == {<<"x">>, <<"x", "&", "y">>, <<"<">>, <<"'", "v", "'">>}

AttrDocs == {AttrDoc(nm, sep, v) : nm \in AttrNames, sep \in AttrSeps, v \in AttrValues}

\* (TAG "TEXT")
BlockDoc(tag, text) == Parens(tag, Arg(text))

GenericTags == {<<"p">>, <<"d", "i", "v">>, <<"P">>}

OtherTags == {<<"b">>, <<"b", "r">>, <<"h", "r">>, <<"t", "i", "t", "l", "e">>, <<"s", "c", "r", "i", "p", "t">>}

BlockBodies == {<<"h", "i">>, <<"a", "&", "b">>, <<>>}

BlockDocs ==
    {BlockDoc(tag, text) : tag \in GenericTags \cup OtherTags, text \in BlockBodies}
    \cup {Parens(<<"p">>, <<" ">> \o BlockDoc(<<"p">>, <<"x">>)),
          BlockDoc(<<"p">>, <<"h", "i">>) \o BlockDoc(<<"p">>, <<"h", "i">>),
          BlockDoc(<<"p">>, <<"a">>) \o Quoted(<<"\n", "\n">>),
          Quoted(<<"a", "\n", "\n">>), Quoted(<<"a">>), <<>>, <<" ">>, <<"\n">>}

\* (@TAG [n INIT...] [UPDATE...]... "x"): the name n, then the init statements
FlowDoc(tag, inits, updates) ==
    Parens(tag, Block(<<"n">> \o Args(inits))
                \o Join([i \in 1..Len(updates) |-> Block(Args(updates[i]))])
                \o Arg(<<"x">>))

S_python == <<"@", "p", "y", "t", "h", "o", "n">>

S_while == <<"@", "w", "h", "i", "l", "e">>

S_when == <<"@", "w", "h", "e", "n">>

S_unless == <<"@", "u", "n", "l", "e", "s", "s">>

S_n_is(k) == <<"n", "=">> \o DecimalStr(k)

S_decrement == <<"n", "=", "n", "-", "1">>

S_m_is_n == <<"m", "=", "n">>

MaxCount == 3

\* the count-down of n from k, with an update statement that decrements it
CountDownDoc(k) == FlowDoc(S_while, <<S_n_is(k)>>, <<<<S_decrement>>>>)

WhileDocs ==
    {CountDownDoc(k) : k \in 0..MaxCount}
    \cup {FlowDoc(S_while, <<>>, <<>>),
          FlowDoc(S_while, <<S_n_is(0)>>, <<>>),
          FlowDoc(S_while, <<S_n_is(1)>>, <<>>),
          FlowDoc(S_while, <<S_n_is(2), S_m_is_n>>, <<<<S_decrement>>, <<S_m_is_n>>>>),
          FlowDoc(S_while, <<S_n_is(2)>>, <<<<S_decrement, S_m_is_n>>>>),
          Parens(S_python, Arg(S_n_is(2))) \o FlowDoc(S_while, <<>>, <<<<S_decrement>>>>)}

CondInits == {<<>>, <<<<"n", "=", "0">>>>, <<<<"n", "=", "1">>>>, <<<<"n", "=", "'", "'">>>>, <<<<"n", "=", "'", "a", "'">>>>}

CondUpdates == {<<>>, <<<<<<"m", "=", "1">>>>>>}

CondDocs ==
    {FlowDoc(tag, inits, updates) :
        tag \in {S_when, S_unless}, inits \in CondInits, updates \in CondUpdates}
    \cup {Parens(tag, rest) : tag \in {S_when, S_unless},
                              rest \in {Arg(<<"x">>), Block(<<>>) \o Arg(<<"x">>)}}
    \cup {Parens(S_when, Block(Quoted(<<>>) \o Arg(S_n_is(3))) \o Arg(<<"x">>))
          \o Parens(S_when, Block(<<"n">>) \o Arg(<<"y">>))}

\* (@python "SNIPPET" ...)
Snippets == {<<"H", "T", "M", "L", "=", "'", "a", "'">>, <<"v", "=", "'", "b", "'">>, <<"H", "T", "M", "L", "=", "v">>, <<"H", "T", "M", "L", "=", "'", "c", "'", "\n", "v", "=", "'", "d", "'">>, <<"H", "T", "M", "L", "=", "0">>}

PythonDocs ==
    {Parens(S_python, Arg(s1) \o Arg(s2) \o Arg(s3)) :
        s1 \in Snippets, s2 \in Snippets, s3 \in {<<"H", "T", "M", "L", "=", "v">>}}
    \cup {FlowDoc(S_when, <<<<"H", "T", "M", "L", "=", "'", "z", "'">>>>, <<>>) \o Parens(S_python, Arg(<<"v", "=", "'", "b", "'">>)),
          FlowDoc(S_unless, <<<<"H", "T", "M", "L", "=", "'", "z", "'">>>>, <<<<<<"H", "T", "M", "L", "=", "'", "z", "'">>>>>>)
          \o Parens(S_python, Arg(<<"v", "=", "'", "b", "'">>)),
          Parens(S_python, Arg(<<"H", "T", "M", "L", "=", "'", "a", "'">>) \o Arg(S_n_is(1)))
          \o FlowDoc(S_when, <<>>, <<>>)}

\* (#ruby [dict=FILE])($ruby "TEXT")
S_ruby_dict == <<"#", "r", "u", "b", "y">>

S_ruby_auto == <<"$", "r", "u", "b", "y">>

S_ruby_register == <<"@", "r", "u", "b", "y">>

RubyDoc(file, text) ==
    Parens(S_ruby_dict, Block(<<"d", "i", "c", "t", "=">> \o file))
    \o Parens(S_ruby_auto, Arg(text))

MaxScanLen == 3

RubyTexts == SeqsUpTo({"A", "B", "&"}, MaxScanLen) \ {<<>>}

RubyFiles == {<<"d", "1">>, <<"d", "2">>, <<"d", "3">>, <<"d", "4">>}

\* (@ruby "AB:r" "A:s")($ruby "TEXT") and the same with the entries swapped
RubyRegisterDoc(entries, text) ==
    Parens(S_ruby_register, Args(entries)) \o Parens(S_ruby_auto, Arg(text))

RubyDocs ==
    {RubyDoc(file, text) : file \in RubyFiles, text \in RubyTexts}
    \cup {RubyRegisterDoc(entries, <<"A", "B">>) :
              entries \in {<<<<"A", "B", ":", "r">>, <<"A", ":", "s">>>>, <<<<"A", ":", "s">>, <<"A", "B", ":", "r">>>>}}

S_AB_r == <<"A", "B", ":", "r">>

S_A_s == <<"A", ":", "s">>

\* (@ruby "BASE:READING"... "BASE"): the last child names a base without a reading
ImplicitRubyDoc(regs, base) == Parens(S_ruby_register, Args(regs \o <<base>>))

ImplicitRegs == {<<>>, <<S_AB_r>>, <<S_A_s>>, <<S_AB_r, S_A_s>>}

ImplicitBases == {<<"A">>, <<"A", "B">>, <<"B">>}

ImplicitRubyDocs ==
    {ImplicitRubyDoc(regs, base) : regs \in ImplicitRegs, base \in ImplicitBases}

\* a bracket group inside an attribute block
NestedAttrDocs ==
    {Parens(<<"p">>, Block(<<"a", " ">> \o Parens(<<"b">>, <<>>))),
     Parens(<<"p">>, Block(<<"a", "=">> \o Parens(<<"b">>, <<>>)) \o Arg(<<"x">>)),
     Parens(<<"p">>, Block(<<"[", "b", "]">>)),
     Parens(<<"p">>, Block(<<"{", "f", "}">>)),
     <<"[", "(", "b", ")", "]">>,
     Parens(<<"p">>, Block(<<"a", " ">> \o Quoted(<<"b">>)))}

\* documents the parser or the lexer rejects
MalformedDocs == {D_p_b, <<"(", "p">>, <<")">>, <<"\"", "a">>}

Docs ==
    AttrDocs \cup BlockDocs \cup WhileDocs \cup CondDocs \cup PythonDocs \cup RubyDocs
    \cup ImplicitRubyDocs \cup NestedAttrDocs \cup MalformedDocs

Init == \E doc \in Docs : InitDoc(<<"-">>, doc, DEFAULT_TAB_WIDTH)

Spec == Init /\ [][Next]_vars

(***************************************************************************)
(* reindent applied on its own, for every tab width of the model.          *)
(***************************************************************************)
MaxLines == 3

TabWidths == {2, 4, 8}

ReindentLinesOf == {<<>>, <<" ", " ">>, <<" ", " ", " ", " ", "a">>, <<" ", " ", " ", " ", "b">>, <<" ", " ", "c">>, <<"\t", "a">>}

ReindentTexts ==
    {Join([i \in 1..(2 * Len(ls) - 1) |->
              IF i % 2 = 1 THEN ls[(i + 1) \div 2] ELSE <<"\n">>]) :
        ls \in SeqsUpTo(ReindentLinesOf, MaxLines) \ {<<>>}}

InitReindent ==
    /\ \E indent \in {<<>>, <<">">>}, text \in ReindentTexts, tab \in TabWidths :
           input = [indent |-> indent, text |-> text, tab |-> tab]
    /\ ret = NoValue
    /\ name = <<"-">>
    /\ option = [tab_width |-> DEFAULT_TAB_WIDTH, files |-> Files, clock |-> Clock,
                 stdout |-> Stdout]
    /\ stream = NewStream(<<>>)
    /\ stack = <<>>
    /\ tokens = <<>>
    /\ pc = "call"
    /\ exc = NoExc
    /\ tree = NoTree
    /\ root = NoTree
    /\ gen = NoGen

Reindent ==
    /\ pc = "call"
    /\ ret' = reindent(input.indent, input.text, input.tab)
    /\ pc' = "return"
    /\ UNCHANGED <<input, name, option, stream, stack, tokens, exc, tree, root, gen>>

SpecReindent == InitReindent /\ [][Reindent]_vars

(***************************************************************************)
(* Two runs of the program on one document: main() builds a new GenHTML    *)
(* for each run, so the second run starts from a new context; the clock    *)
(* and the files it finds are those of its own time.                       *)
(***************************************************************************)
S_date == <<"$", "d", "a", "t", "e">>

S_comment == <<"@", "c", "o", "m", "m", "e", "n", "t">>

\* {f}: the text of file f, parsed in place
Include(path) == <<"{">> \o path \o <<"}">>

DateDocs ==
    {Parens(S_date, <<>>), Parens(S_date, Arg(<<"n", "o", "w">>)),
     Parens(<<"p">>, <<" ">> \o Parens(S_date, <<>>)),
     Parens(S_comment, Arg(<<"x">>)),
     Include(<<"f">>), Parens(<<"p">>, <<" ">> \o Include(<<"f">>))}

RunDocs == Docs \cup DateDocs

Clocks == {Clock, <<"u">>}

LaterFiles == [p \in DOMAIN Files |-> <<"A", ":", "z", "\n">>]

FileSystems == {Files, LaterFiles}

InitRuns == \E doc \in RunDocs : InitDoc(<<"-">>, doc, DEFAULT_TAB_WIDTH)

Regenerated(env, g) ==
    /\ ret' = [text |-> Gen(g).text, raised |-> g.ctx.raised, clock |-> env.clock,
               files |-> env.files]
    /\ pc' = "again"

Regenerate ==
    /\ pc = "done"
    /\ \E clock \in Clocks, files \in FileSystems :
           Regenerated([option EXCEPT !.clock = clock, !.files = files],
                       generate(tree, [option EXCEPT !.clock = clock, !.files = files]))
    /\ UNCHANGED <<input, name, option, stream, stack, tokens, exc, tree, root, gen>>

NextRuns == ParseNext \/ Generate \/ Regenerate

SpecRuns == InitRuns /\ [][NextRuns]_vars

(***************************************************************************)
(* The lexer on documents of quotes: the parser's loop over gettoken, on   *)
(* short texts of quotes and brackets and on long-quote literals.          *)
(***************************************************************************)
MaxQuoteLen == 3

LexAlphabet == {"\"", "[", "]", "a", "\n"}

LongQuoteAlphabet == {"]", "\"", "a", "\\"}

\* """[CONTENT]"""
LongQuoted(content) ==
    <<"\"">> \o S_long_open \o content \o <<"]">> \o S_long_close

LongQuoteDocs ==
    {before \o LongQuoted(content) \o after :
        before \in {<<>>, Quoted(<<"a">>)},
        content \in SeqsUpTo(LongQuoteAlphabet, MaxQuoteLen),
        after \in {<<>>, Quoted(<<"a">>), <<"a">>, <<"\"">>}}

EscapeDocs == {Quoted(<<"\\", "n">>), Quoted(<<"\\", "\"">>), <<"\"", "a", "\\">>,
               <<"'", "a", "\"", "'">>}

LexDocs == SeqsUpTo(LexAlphabet, MaxDocLen) \cup LongQuoteDocs \cup EscapeDocs

InitLexer == \E doc \in LexDocs : InitDoc(<<"-">>, doc, DEFAULT_TAB_WIDTH)

SpecLexer == InitLexer /\ [][ParseNext]_vars

(***************************************************************************)
(* Claims.                                                                 *)
(***************************************************************************)
Closer(o) == CASE o = "(" -> ")" [] o = "[" -> "]" [] o = "{" -> "}"

\* The brackets of a token sequence read left to right: the openers still open,
\* innermost last, until the first close token that is not the closer of the
\* innermost open bracket.
RECURSIVE Scan(_, _)
Scan(toks, opens) ==
    IF toks = <<>> THEN [bad |-> FALSE, opens |-> opens, close |-> <<>>]
    ELSE IF Head(toks)[1] = "o" THEN Scan(Tail(toks), Append(opens, Head(toks)[2][1]))
    ELSE IF Head(toks)[1] # "c" THEN Scan(Tail(toks), opens)
    ELSE IF opens # <<>> /\ Head(toks)[2] = <<Closer(opens[Len(opens)])>>
         THEN Scan(Tail(toks), SubSeq(opens, 1, Len(opens) - 1))
    ELSE [bad |-> TRUE, opens |-> opens, close |-> Head(toks)[2]]

Innermost(opens) == IF opens = <<>> THEN <<>> ELSE <<opens[Len(opens)]>>

InnermostCloser(opens) == IF opens = <<>> THEN <<>> ELSE <<Closer(opens[Len(opens)])>>

EndsWith(text, tail) ==
    Len(text) >= Len(tail) /\ SubSeq(text, Len(text) - Len(tail) + 1, Len(text)) = tail

StartsWith(text, head) ==
    Len(text) >= Len(head) /\ SubSeq(text, 1, Len(head)) = head

\* The parser has stopped on a token sequence: a tree, or a syntax error.
ParserStopped == pc = "parsed" \/ (pc = "raised" /\ exc.type = "SxSyntaxError")

C1_Verdict(sc) ==
    /\ (pc = "parsed") = (~sc.bad /\ sc.opens = <<>>)
    /\ pc = "parsed" => tree # NoTree /\ tree.open = <<>> /\ exc = NoExc
    /\ pc = "raised" => tree = NoTree
    /\ sc.bad => EndsWith(exc.text, UnmatchedMsg(Innermost(sc.opens), sc.close))
    /\ (~sc.bad /\ sc.opens # <<>>) =>
           EndsWith(exc.text, MissingMsg(InnermostCloser(sc.opens)))

\* C1: the parser yields a tree iff every close token is the closer of the
\* innermost open bracket and none is open at the end of input; otherwise it
\* raises 'unmatched "<opener> ... <closer>"' at the first offending close
\* token, or 'missing "<closer>"' for the innermost unclosed bracket, and
\* yields no tree.
C1_ParserAcceptsIffBalanced == ParserStopped => C1_Verdict(Scan(tokens, <<>>))

\* the `(p [b)` case: '[' is open when ')' arrives
C1_Witness ==
    /\ pc = "raised"
    /\ EndsWith(exc.text, UnmatchedMsg(<<"[">>, <<")">>))
    /\ Len(tokens) = 6

\* C2: every malformed document is reported as
\* '<source>:<line>: syntax error: <detail>' with <line> the number of the
\* line the parser or lexer stopped on.
C2_SyntaxErrorNamesLineNumber ==
    pc = "raised" =>
        /\ exc.type = "SxSyntaxError"
        /\ StartsWith(exc.text, StreamName(name) \o <<":">>
                                \o DecimalStr(stream.number) \o S_syntax_error)

Last(text) == text[Len(text)]

\* each of & < > " as one entity, every other character as itself
EscapeOnce(value) ==
    Join([i \in 1..Len(value) |->
            CASE value[i] = "&" -> S_amp
              [] value[i] = "<" -> S_lt
              [] value[i] = ">" -> S_gt
              [] value[i] = "\"" -> S_quot
              [] OTHER -> <<value[i]>>])

\* one layer of matching quote characters stripped
StripQuotes(value) ==
    IF Len(value) >= 2 /\ value[1] \in {"'", "\""} /\ Last(value) = value[1]
    THEN SubSeq(value, 2, Len(value) - 1)
    ELSE value

C3_Expected(nm, value) ==
    <<"<", "a", " ">> \o nm \o <<"=", "\"">> \o EscapeOnce(StripQuotes(value))
    \o <<"\"", ">", "g", "o", "<", "/", "a", ">", "\n">>

\* C3: the attribute of (a [NAME SEP "VALUE"] "go"), with or without spaces
\* around the `=`, is emitted once as NAME="VALUE", one layer of matching
\* quotes stripped from the value and each & < > " of it escaped exactly once.
C3_AttributeEscapedOnce ==
    \A nm \in AttrNames, sep \in AttrSeps, value \in AttrValues :
        (pc = "done" /\ input = AttrDoc(nm, sep, value)) =>
            gen.text = C3_Expected(nm, value)

\* the value a flow-control test reads: truthy, with absent counting as falsy
ReadsTruthy(locals, nm) == nm \in DOMAIN locals /\ Truthy(locals[nm])

\* whether the body runs after a test that read `value`
Runs(tag, value) == IF tag = S_unless THEN ~value ELSE value

IsExec(e, role, statement) ==
    e.ev = "exec" /\ e.role = role /\ e.src = statement \o <<"\n">>

\* The protocol of flow control in the history of a run: after `enter`, the
\* init statements once and in order, then a test that reads the name from
\* the namespace as it is then; after a test that lets the body run, the body
\* once and then the update statements once and in order; a @while tests
\* again, the others leave; after any other test, nothing but `leave`.  With no
\* group 0 nothing happens between `enter` and `leave`.  A history cut short
\* by an exception follows the protocol as far as it goes.
RECURSIVE FlowOutside(_, _)
RECURSIVE FlowTrace(_, _, _, _, _)
FlowTrace(log, i, fl, phase, j) ==
    IF i > Len(log) THEN TRUE
    ELSE CASE phase = "init" ->
                IF j <= Len(fl.inits)
                THEN IsExec(log[i], "init", fl.inits[j])
                     /\ FlowTrace(log, i + 1, fl, "init", j + 1)
                ELSE FlowTrace(log, i, fl, IF fl.name = <<>> THEN "leave" ELSE "test", 1)
           [] phase = "test" ->
                /\ log[i].ev = "test"
                /\ log[i].name = fl.name
                /\ log[i].value = ReadsTruthy(log[i].pre, fl.name)
                /\ log[i - 1].ev = "exec" => log[i].pre = log[i - 1].post
                /\ FlowTrace(log, i + 1, fl,
                             IF Runs(fl.tag, log[i].value) THEN "body" ELSE "leave", 1)
           [] phase = "body" ->
                log[i].ev = "body" /\ FlowTrace(log, i + 1, fl, "update", 1)
           [] phase = "update" ->
                IF j <= Len(fl.updates)
                THEN IsExec(log[i], "update", fl.updates[j])
                     /\ FlowTrace(log, i + 1, fl, "update", j + 1)
                ELSE FlowTrace(log, i, fl, IF fl.tag = S_while THEN "test" ELSE "leave", 1)
           [] phase = "leave" ->
                log[i].ev = "leave" /\ FlowOutside(log, i + 1)

FlowEnter(log, i, tag, params) ==
    IF params = <<>> \/ params[1] = <<>>
    THEN FlowTrace(log, i + 1,
                   [tag |-> tag, name |-> <<>>, inits |-> <<>>, updates |-> <<>>],
                   "leave", 1)
    ELSE FlowTrace(log, i + 1,
                   [tag |-> tag, name |-> params[1][1], inits |-> Tail(params[1]),
                    updates |-> Join(Tail(params))],
                   "init", 1)

FlowOutside(log, i) ==
    IF i > Len(log) THEN TRUE
    ELSE IF log[i].ev = "enter" THEN FlowEnter(log, i, log[i].tag, log[i].params)
    ELSE /\ log[i].ev \in {"exec", "emit"}
         /\ log[i].ev = "exec" => log[i].role = "snippet"
         /\ FlowOutside(log, i + 1)

FlowProtocol(log) == FlowOutside(log, 1)

BodyCount(log) == Cardinality({i \in 1..Len(log) : log[i].ev = "body"})

Stopped == pc \in {"done", "raised", "cut"}

\* C4: every @while follows the protocol (init statements once before the
\* first test, the name re-read before every iteration, the update statements
\* once after each body, no body after a test that read falsy or absent), its
\* body is in the output once per iteration, and the count-down from k
\* terminates after exactly k bodies with n = 0.
C4_WhileLoop ==
    /\ (Stopped /\ input \in WhileDocs) => FlowProtocol(gen.log)
    /\ (pc = "done" /\ input \in WhileDocs) =>
           gen.layout = Repeat(<<"x">>, BodyCount(gen.log))
    /\ \A k \in 0..MaxCount :
           (Stopped /\ input = CountDownDoc(k)) =>
               /\ pc = "done"
               /\ BodyCount(gen.log) = k
               /\ gen.locals[<<"n">>] = PyInt(0)

\* the count-down from 3 has rendered xxx
C4_Witness ==
    /\ pc = "done"
    /\ input = CountDownDoc(MaxCount)
    /\ BodyCount(gen.log) = MaxCount
    /\ gen.text = Repeat(<<"x">>, MaxCount) \o <<"\n">>

C5_Indented(tag, text) ==
    <<"<">> \o tag \o <<">", "\n", " ", " ">> \o EscapeOnce(text)
    \o <<"<", "/">> \o tag \o <<">", "\n">>

C5_Inline(tag, text) ==
    <<"<">> \o tag \o <<">">> \o EscapeOnce(text) \o <<"<", "/">> \o tag \o <<">", "\n">>

\* C5 as stated: a generic block with one text child is rendered as opening
\* tag, line break, the text indented two spaces, closing tag, line break.
C5_GenericBlockIndented ==
    \A tag \in GenericTags, text \in BlockBodies :
        (pc = "done" /\ input = BlockDoc(tag, text)) =>
            gen.text = C5_Indented(tag, text)

\* C5 amended: a generic block with no attributes and one text child without
\* a line break is rendered as opening tag, the escaped text directly after
\* it, closing tag, line break.
C5_GenericBlockInline ==
    \A tag \in GenericTags, text \in BlockBodies :
        (pc = "done" /\ input = BlockDoc(tag, text)) =>
            gen.text = C5_Inline(tag, text)

\* (p "hi") has been rendered
C5_Witness ==
    /\ pc = "done"
    /\ input = BlockDoc(<<"p">>, <<"h", "i">>)
    /\ gen.text = <<"<", "p", ">", "h", "i", "<", "/", "p", ">", "\n">>

\* the lines that are not wholly blank
C6_NonBlank(lines) == {i \in 1..Len(lines) : Strip(lines[i]) # <<>>}

C6_Cut(lines) ==
    SetMin({REINDENT_MAX_CUT} \cup {LeadingWidth(lines[i]) : i \in C6_NonBlank(lines)})

C6_Reindented(indent, lines) == ReindentLines(indent, lines, C6_Cut(lines))

C6_Expected(indent, text, tab) ==
    C6_Reindented(indent, DropTrailingBlank(DropLeadingBlank(
                              UntabifyAll(Split(text, "\n"), tab))))

\* C6: reindent removes from every non-blank line the minimum leading width of
\* the non-blank lines (at most 80) and prefixes the caller's indent; blank
\* lines, whitespace-only ones included, never change the cut and are output
\* as a bare newline.
C6_CutOverNonBlankLines ==
    pc = "return" => ret = C6_Expected(input.indent, input.text, input.tab)

\* what the automatic scan is expected to emit for a text and a dictionary
\* given as a set of [key, reading]
IsPrefix(p, text) == Len(p) <= Len(text) /\ SubSeq(text, 1, Len(p)) = p

SetMax(S) == CHOOSE x \in S : \A y \in S : y <= x

\* how far the text follows a key of the dictionary from its first character
PathLen(text, entries) ==
    SetMax({0} \cup {n \in 1..Len(text) :
                        \E e \in entries : IsPrefix(SubSeq(text, 1, n), e.key)})

Annotated(base, reading) ==
    EscapeOnce(base) \o S_rp_open \o EscapeOnce(reading) \o S_rp_close

\* the annotation registered for exactly this key, nothing if there is none
AnnotationOf(key, entries) ==
    IF \E e \in entries : e.key = key
    THEN Annotated(key, (CHOOSE e \in entries : e.key = key).reading)
    ELSE <<>>

RECURSIVE ScanUnits(_, _)
ScanUnitsOf(text, entries, n) ==
    IF n = 0
    THEN <<[ruby |-> FALSE, text |-> EscapeOnce(<<Head(text)>>)]>>
         \o ScanUnits(Tail(text), entries)
    ELSE <<[ruby |-> TRUE, text |-> AnnotationOf(SubSeq(text, 1, n), entries)]>>
         \o ScanUnits(SubSeq(text, n + 1, Len(text)), entries)

ScanUnits(text, entries) ==
    IF text = <<>> THEN <<>> ELSE ScanUnitsOf(text, entries, PathLen(text, entries))

S_ruby_open == <<"<", "r", "u", "b", "y", ">">>

S_ruby_close == <<"<", "/", "r", "u", "b", "y", ">">>

\* adjacent annotated units share one ruby container
RECURSIVE ScanRender(_, _)
ScanRender(units, open) ==
    IF units = <<>> THEN (IF open THEN S_ruby_close ELSE <<>>)
    ELSE IF Head(units).ruby
    THEN (IF open THEN <<>> ELSE S_ruby_open) \o Head(units).text
         \o ScanRender(Tail(units), TRUE)
    ELSE (IF open THEN S_ruby_close ELSE <<>>) \o Head(units).text
         \o ScanRender(Tail(units), FALSE)

Entry(key, reading) == [key |-> key, reading |-> reading]

E_AB == Entry(<<"A", "B">>, <<"r">>)

E_A == Entry(<<"A">>, <<"s">>)

E_B == Entry(<<"B">>, <<"t">>)

\* the entries of the dictionary files
EntriesOf(file) ==
    CASE file = <<"d", "1">> -> {E_AB, E_A}
      [] file = <<"d", "2">> -> {E_A, E_AB}
      [] file = <<"d", "3">> -> {E_A, E_B}
      [] file = <<"d", "4">> -> {E_AB}

C7_Expected(text, entries) == ScanRender(ScanUnits(text, entries), FALSE) \o <<"\n">>

S_AB_annotated == S_ruby_open \o Annotated(<<"A", "B">>, <<"r">>) \o S_ruby_close

\* C7: from each start position the automatic scan follows the dictionary as
\* far as the text allows and emits the readings of that longest path as one
\* unit; with AB and A registered, in either order, AB is annotated as AB.
C7_RubyLongestMatch ==
    /\ \A file \in RubyFiles, text \in RubyTexts :
           (pc = "done" /\ input = RubyDoc(file, text)) =>
               gen.text = C7_Expected(text, EntriesOf(file))
    /\ \A entries \in {<<<<"A", "B", ":", "r">>, <<"A", ":", "s">>>>, <<<<"A", ":", "s">>, <<"A", "B", ":", "r">>>>} :
           (pc = "done" /\ input = RubyRegisterDoc(entries, <<"A", "B">>)) =>
               EndsWith(gen.text, S_ruby_close \o S_AB_annotated \o <<"\n">>)

\* AB scanned with AB and A in the dictionary
C7_Witness ==
    /\ pc = "done"
    /\ input = RubyDoc(<<"d", "2">>, <<"A", "B">>)
    /\ gen.text = S_AB_annotated \o <<"\n">>

\* the namespace an event of the history saw, and the one it left
HasNamespace(e) == e.ev \in {"exec", "test", "emit"}

NsPre(e) == IF e.ev = "emit" THEN e.locals ELSE e.pre

NsPost(e) == IF e.ev = "exec" THEN e.post ELSE NsPre(e)

\* every binding of `before` other than HTML is in `after`, unchanged
Kept(before, after) ==
    \A k \in DOMAIN before : k # S_HTML => (k \in DOMAIN after /\ after[k] = before[k])

FrameKept(ns) == \A i \in 1..(Len(ns) - 1) : Kept(NsPost(ns[i]), NsPre(ns[i + 1]))

IsSnippet(e) == e.ev = "exec" /\ e.role = "snippet"

\* the text emitted for the value HTML holds after the snippet; a snippet that
\* is empty executes nothing and emits the empty text
EmitsValue(text, value) ==
    /\ value.t = "str" => text = value.s
    /\ value.t = "none" => text = <<>>

SnippetOutput(log) ==
    \A i \in 1..Len(log) :
        /\ IsSnippet(log[i]) =>
               (S_HTML \in DOMAIN log[i].pre /\ log[i].pre[S_HTML] = PyNone)
        /\ log[i].ev = "emit" =>
               /\ EmitsValue(log[i].text, log[i].locals[S_HTML])
               /\ IF i > 1 /\ IsSnippet(log[i - 1])
                  THEN log[i].locals = log[i - 1].post
                  ELSE log[i].locals[S_HTML] = PyNone

EmittedTexts(log) == [i \in 1..Len(log) |-> IF log[i].ev = "emit" THEN log[i].text ELSE <<>>]

D_flow_then_snippet ==
    FlowDoc(S_unless, <<<<"H", "T", "M", "L", "=", "'", "z", "'">>>>, <<<<<<"H", "T", "M", "L", "=", "'", "z", "'">>>>>>) \o Parens(S_python, Arg(<<"v", "=", "'", "b", "'">>))

D_a_b_v == Parens(S_python, Arg(<<"H", "T", "M", "L", "=", "'", "a", "'">>) \o Arg(<<"v", "=", "'", "b", "'">>) \o Arg(<<"H", "T", "M", "L", "=", "v">>))

TruthyInits == {<<<<"n", "=", "1">>>>, <<<<"n", "=", "'", "a", "'">>>>}

NoGroupDocs ==
    {Parens(tag, rest) : tag \in {S_when, S_unless},
                         rest \in {Arg(<<"x">>), Block(<<>>) \o Arg(<<"x">>)}}

NoExec(log) == \A i \in 1..Len(log) : log[i].ev \notin {"exec", "test", "body"}

C9_Rendered(tag, inits, updates) ==
    /\ gen.text = IF Runs(tag, inits \in TruthyInits) THEN <<"x", "\n">> ELSE <<>>
    /\ BodyCount(gen.log) = IF Runs(tag, inits \in TruthyInits) THEN 1 ELSE 0
    /\ (<<"m">> \in DOMAIN gen.locals) = (Runs(tag, inits \in TruthyInits) /\ updates # <<>>)

SCRIPT_TAGS == {S_python, <<"$", "p", "y", "t", "h", "o", "n">>} \cup FLOWCONTROL_TAGS

TokenTexts == {ToLower(tokens[i][2]) : i \in 1..Len(tokens)}

NoScripting == TokenTexts \cap SCRIPT_TAGS = {}

\* no {...} include and no #ruby dictionary file
ReadsNoFile == <<"{">> \notin TokenTexts /\ S_ruby_dict \notin TokenTexts

SecondRun == pc = "again"

RECURSIVE Unannotated(_)
Unannotated(out) ==
    IF out = <<>> THEN <<>>
    ELSE IF IsPrefix(S_ruby_open, out)
    THEN Unannotated(SubSeq(out, Len(S_ruby_open) + 1, Len(out)))
    ELSE IF IsPrefix(S_ruby_close, out)
    THEN Unannotated(SubSeq(out, Len(S_ruby_close) + 1, Len(out)))
    ELSE IF IsPrefix(S_rp_open, out)
    THEN Unannotated(SubSeq(out, Len(S_rp_open) + 1, Len(out)))
    ELSE IF IsPrefix(S_rp_close, out)
    THEN Unannotated(SubSeq(out, Len(S_rp_close) + 1, Len(out)))
    ELSE IF Len(out) > Len(S_rp_close) /\ SubSeq(out, 2, Len(S_rp_close) + 1) = S_rp_close
    THEN Unannotated(Tail(out))
    ELSE <<Head(out)>> \o Unannotated(Tail(out))

\* C12: the automatic scan loses no text: for every dictionary file and every
\* scanned text, the characters of the text appear in the output once and in
\* order, as annotated bases or as plain text.
C12_ScanLosesNoText ==
    \A file \in RubyFiles, text \in RubyTexts :
        (pc = "done" /\ input = RubyDoc(file, text)) =>
            Unannotated(gen.text) = EscapeOnce(text) \o <<"\n">>

\* the entries an @ruby element registers before its last child
C13_Entries(regs) == [i \in 1..Len(regs) |-> IF regs[i] = S_AB_r THEN E_AB ELSE E_A]

C13_Registrations(es) == Join([i \in 1..Len(es) |-> Annotated(es[i].key, es[i].reading)])

\* the dictionary that holds exactly these entries
RECURSIVE C13_Dictionary(_)
C13_Dictionary(es) ==
    IF es = <<>> THEN NewRubyMap
    ELSE RubySet(C13_Dictionary(SubSeq(es, 1, Len(es) - 1)), Last(es).key,
                 <<<<Last(es).key, Last(es).reading>>>>)

C13_Reused(es, base) ==
    IF \E i \in 1..Len(es) : es[i].key = base
    THEN AnnotationOf(base, {es[i] : i \in 1..Len(es)})
    ELSE base

C13_Expected(es, base) ==
    S_ruby_open \o C13_Registrations(es) \o C13_Reused(es, base) \o S_ruby_close
    \o <<"\n">>

\* C13: an @ruby child with no reading emits the readings registered under
\* exactly that base; when nothing is registered under exactly that base, also
\* when the base is a proper prefix of a registered key, the base is emitted
\* unannotated and the dictionary is left as it was.
C13_ImplicitReuseExactKey ==
    \A regs \in ImplicitRegs, base \in ImplicitBases :
        (pc = "done" /\ input = ImplicitRubyDoc(regs, base)) =>
            /\ gen.text = C13_Expected(C13_Entries(regs), base)
            /\ gen.rubymap = C13_Dictionary(C13_Entries(regs))

\* the parser has accepted the document: the bracket tree is built
Accepted == tree # NoTree

\* C14: for every document the parser accepts, the semantic tree builder never
\* raises the fault of an attribute block whose child has no value
\* (NotImplementedError in parse_element_attribute).
C14_AttributeFaultUnreachable ==
    (Accepted /\ pc = "raised") => exc.type # "NotImplementedError"

HasChildren(node) == node.children # <<>>

ExactlyOneOf(node) == HasChildren(node) # has_value(node)

RECURSIVE ExactlyOneBelow(_)
ExactlyOneBelow(node) ==
    \A i \in 1..Len(node.children) :
        ExactlyOneOf(node.children[i]) /\ ExactlyOneBelow(node.children[i])

\* C15: every node of a tree the parser produces, other than the synthetic
\* root, has exactly one of a non-empty children list and a leaf token.
C15_ExactlyOneOfChildrenOrToken ==
    pc = "parsed" => ExactlyOneBelow(tree)

\* A reference reading of the text with no lookahead and no push-back: each
\* token is taken from the characters themselves.
C16_Unescape(char) == CASE char = "t" -> "\t" [] char = "n" -> "\n" [] OTHER -> char

\* an ordinary quoted string from the character after its opening quote
RECURSIVE C16_Quote(_, _, _)
C16_Quote(qch, qstr, s) ==
    IF s = <<>> THEN [raised |-> TRUE, text |-> qstr, rest |-> s]
    ELSE IF s[1] = "\\"
    THEN (IF Len(s) = 1 THEN [raised |-> TRUE, text |-> qstr, rest |-> <<>>]
          ELSE C16_Quote(qch, Append(qstr, C16_Unescape(s[2])), SubSeq(s, 3, Len(s))))
    ELSE IF s[1] = qch THEN [raised |-> FALSE, text |-> qstr, rest |-> Tail(s)]
    ELSE C16_Quote(qch, Append(qstr, s[1]), Tail(s))

\* the places of s where ]""" stands
C16_Closers(s) ==
    {i \in 1..Len(s) : IsPrefix(<<"]">> \o S_long_close, SubSeq(s, i, Len(s)))}

\* a long quote from the character after """[: the text before the first ]"""
C16_LongAt(s, closers) ==
    IF closers = {} THEN [raised |-> TRUE, text |-> s, rest |-> <<>>]
    ELSE [raised |-> FALSE, text |-> SubSeq(s, 1, SetMin(closers) - 1),
          rest |-> SubSeq(s, SetMin(closers) + 4, Len(s))]

C16_Long(s) == C16_LongAt(s, C16_Closers(s))

\* how many characters at the head of s belong to the set
RECURSIVE C16_Run(_, _)
C16_Run(s, set) ==
    IF s = <<>> \/ s[1] \notin set THEN 0 ELSE 1 + C16_Run(Tail(s), set)

C16_Letters(s) == {s[i] : i \in 1..Len(s)} \ charset_wstop

RECURSIVE C16_Tokens(_, _)
C16_Quoted(toks, q) ==
    IF q.raised THEN [tokens |-> toks, raised |-> TRUE]
    ELSE C16_Tokens(Append(toks, <<"q", q.text>>), q.rest)

C16_Cut(toks, kind, s, n) ==
    C16_Tokens(Append(toks, <<kind, SubSeq(s, 1, n)>>), SubSeq(s, n + 1, Len(s)))

C16_Tokens(toks, s) ==
    IF s = <<>> THEN [tokens |-> toks, raised |-> FALSE]
    ELSE IF s[1] \in {"(", "[", "{"} THEN C16_Cut(toks, "o", s, 1)
    ELSE IF s[1] \in {")", "]", "}"} THEN C16_Cut(toks, "c", s, 1)
    ELSE IF s[1] \in charset_space THEN C16_Cut(toks, "s", s, C16_Run(s, charset_space))
    ELSE IF s[1] = "'" THEN C16_Quoted(toks, C16_Quote("'", <<>>, Tail(s)))
    ELSE IF s[1] # "\"" THEN C16_Cut(toks, "w", s, 1 + C16_Run(Tail(s), C16_Letters(s)))
    ELSE IF IsPrefix(S_long_open, Tail(s))
    THEN C16_Quoted(toks, C16_Long(SubSeq(s, 5, Len(s))))
    ELSE C16_Quoted(toks, C16_Quote("\"", <<>>, Tail(s)))

LexRaised == pc = "raised" /\ exc.type = "NotImplementedError"

C16_Against(ref) ==
    /\ IsPrefix(tokens, ref.tokens)
    /\ pc = "parsed" => (tokens = ref.tokens /\ ~ref.raised)
    /\ LexRaised => (tokens = ref.tokens /\ ref.raised)

\* C16: the tokens the lexer returns are those of the text read with no
\* lookahead: after a double quote not followed by ""[ the three characters
\* read ahead (fewer at the end of the input) come back in their order and the
\* token is the ordinary quoted string; after """[ the token is the text up to
\* the first ]""", verbatim, with a ] followed by fewer than three quotes
\* kept as content.
C16_LookaheadPushedBack == C16_Against(C16_Tokens(<<>>, input))

\* a long quote whose content is ]" and then "a" read at the end of the input,
\* where two characters remain after the opening quote
C16_Witness ==
    /\ pc = "parsed"
    /\ input = LongQuoted(<<"]", "\"">>) \o Quoted(<<"a">>)
    /\ tokens = <<<<"q", <<"]", "\"">>>>, <<"q", <<"a">>>>>>

=============================================================================
